---- MODULE Spec2Model ----
(***************************************************************************)
(* Chunked-upload server: the upload routes (routes/upload.routes.ts, the  *)
(* current version, src/unnamed/part_003) and the file utilities           *)
(* (utils/fileUtils.ts, src/unnamed/part_004).                             *)
(*                                                                         *)
(* A request is a task: it holds a slot from its first step to its         *)
(* response.  One step of a task is one awaited I/O effect together with   *)
(* the synchronous code that follows it up to the next await, so the       *)
(* interleavings of the steps are the interleavings Node's event loop can  *)
(* produce.  With the in-memory table a handler holds a REFERENCE to the   *)
(* stored status object and to its receivedChunks Set; with Redis it holds *)
(* a private copy parsed from JSON.  Object and Set identity are the       *)
(*   oid / rcRef fields; a mutation through a reference is applied to      *)
(* every holder of the same identity.                                      *)
(*                                                                         *)
(* Not modelled: uploadStartTime / lastActivityTime (no handler reads      *)
(* them), logging, the rate limiter (registered after the routes), and I/O *)
(* failures other than a missing file.  One pass of cleanupOldChunks is    *)
(* one step.                                                               *)
(***************************************************************************)
EXTENDS Integers, Sequences, FiniteSets, TLC

VARIABLES
    redisClient,          \* TRUE: the ioredis client is non-null
    redisStore,           \* Redis keys upload:<fileId> -> parsed JSON value
    memoryUploadStatus,   \* Map<string, UploadStatus>
    chunkFiles,           \* CHUNKS_DIR: <<fileId, chunkIndex>> -> [data, mtime]
    completeFiles,        \* COMPLETE_DIR: path -> sequence of chunk data
    fileHashMap,          \* Map<hash, path>
    now,                  \* Date.now()
    nextFileId,           \* number of file ids generated so far
    tasks,                \* request slots
    served,               \* number of requests accepted, where a budget is set
    retry,                \* the client's axiosWithRetry call and the operation it wraps
    sweep                 \* the pass of cleanupOldChunks that the timer started

vars == <<redisClient, redisStore, memoryUploadStatus, chunkFiles,
          completeFiles, fileHashMap, now, nextFileId, tasks, served, retry,
          sweep>>

world == <<redisClient, redisStore, memoryUploadStatus, chunkFiles,
           completeFiles, fileHashMap, nextFileId>>

-----------------------------------------------------------------------------
(* Bounds *)

MaxChunks == 2
MaxSessions == 2
MaxClock == 1
MaxInFlight == 2
MaxRequests == 5
MaxPairRequests == 6
\* clock ticks in a day
DayTicks == 2
\* CHUNK_RETENTION_MINUTES * 60 * 1000, in clock ticks
maxAge == 0

Slots == 1..MaxInFlight
FileIds == 1..MaxSessions

\* chunk payloads, named by the signature their first bytes carry
ChunkData == {"PNG", "EXE"}
ImageJpeg == [cat |-> "image", sub |-> "jpeg"]
NoType == [cat |-> "", sub |-> ""]
FileTypes == {ImageJpeg}
FileNames == {"a.bin"}

-----------------------------------------------------------------------------
(* JavaScript values *)

\* an object with no field set; oid = 0 and rcRef = 0 mean "no identity"
NoObj == [oid |-> 0, rcRef |-> 0]

Has(o, k) == k \in DOMAIN o

\* { ...current, ...data }
Spread(current, data) == data @@ current

\* a JS Set is kept in insertion order: a sequence without duplicates
\* variant of SetHas that looks at the first member only; DuplicateChunkIsNoOp
\* does not hold of it
SetHasFirst(s, x) == s # <<>> /\ s[1] = x

SetHas(s, x) == \E k \in 1..Len(s) : s[k] = x

SetAdd(s, x) == IF SetHas(s, x) THEN s ELSE Append(s, x)

RECURSIVE NewSet(_)
\* new Set(array)
NewSet(arr) ==
    IF arr = <<>> THEN <<>>
    ELSE LET front == NewSet(SubSeq(arr, 1, Len(arr) - 1))
         IN  SetAdd(front, arr[Len(arr)])

\* variant of ArrayFrom that loses the first member; ChunksRoundTrip does not
\* hold of it
ArrayFromRest(s) == IF s = <<>> THEN s ELSE Tail(s)

\* Array.from(set)
ArrayFrom(s) == s

Members(s) == {s[k] : k \in 1..Len(s)}

RECURSIVE SortAsc(_)
\* array.sort((a, b) => a - b)
SortAsc(arr) ==
    IF arr = <<>> THEN <<>>
    ELSE LET lo == CHOOSE x \in Members(arr) : \A y \in Members(arr) : x <= y
             k  == CHOOSE j \in 1..Len(arr) : arr[j] = lo
         IN  <<lo>> \o SortAsc(SubSeq(arr, 1, k - 1) \o SubSeq(arr, k + 1, Len(arr)))

\* Math.round((size / total) * 100); -1 stands for NaN (total undefined or 0)
Progress(size, total) ==
    IF total > 0 THEN (200 * size + total) \div (2 * total)
    ELSE IF total < 0 THEN 0
    ELSE -1

FreshId(used) ==
    CHOOSE n \in 1..(Cardinality(used) + 1) :
        n \notin used /\ \A m \in 1..(n - 1) : m \in used

-----------------------------------------------------------------------------
(* utils/fileUtils.ts *)

\* FileType.fileTypeFromBuffer: the MIME type of the magic number, NoType if none
fileTypeFromBuffer(buffer) ==
    CASE buffer = "PNG" -> [cat |-> "image", sub |-> "png"]
      [] buffer = "EXE" -> [cat |-> "application", sub |-> "x-msdownload"]
      [] OTHER -> NoType

validateFileType(buffer, declaredType) ==
    LET fileTypeResult == fileTypeFromBuffer(buffer)
        isImage == fileTypeResult.cat = "image"
        isVideo == fileTypeResult.cat = "video"
    IN  IF fileTypeResult = NoType
        THEN declaredType.cat = "text"
             \/ (declaredType.cat = "application" /\ declaredType.sub = "json")
        ELSE IF declaredType.cat = "image" THEN isImage
        ELSE IF declaredType.cat = "video" THEN isVideo
        ELSE fileTypeResult = declaredType

DataCode(d) == CASE d = "PNG" -> 1 [] d = "EXE" -> 2 [] OTHER -> 3

RECURSIVE Md5(_)
\* crypto.createHash('md5').update(bytes).digest('hex'), taken as collision-free
Md5(bytes) ==
    IF bytes = <<>> THEN 0
    ELSE DataCode(bytes[1]) + 4 * Md5(Tail(bytes))

\* path.join(CHUNKS_DIR, `${fileId}-${chunkIndex}`)
getChunkPath(fileId, chunkIndex) == <<fileId, chunkIndex>>

\* the write of saveChunk
saveChunk(files, fileId, chunkIndex, chunkBuffer, t) ==
    (getChunkPath(fileId, chunkIndex) :> [data |-> chunkBuffer, mtime |-> t]) @@ files

Unlink(files, p) == [q \in (DOMAIN files) \ {p} |-> files[q]]

\* cleanupOldChunks: one pass over CHUNKS_DIR
cleanupOldChunks(files, t) ==
    [p \in {q \in DOMAIN files : ~(t - files[q].mtime > maxAge)} |-> files[p]]

\* a path is the sequence of its segments, a URL likewise after its origin;
\* a segment is a text, with the number that is printed into it
Seg(text) == [text |-> text, n |-> 0]
COMPLETE_DIR == <<Seg("uploads"), Seg("complete")>>
NoPath == <<>>

\* `${year}-${month}-${day}` of today
DateFolder(t) == [text |-> "date", n |-> t \div DayTicks]

\* path.join(datePath, `${baseName}-${timestamp}${fileExt}`)
UniquePath(fileName, timestamp) ==
    COMPLETE_DIR \o <<DateFolder(timestamp), [text |-> fileName, n |-> timestamp]>>

\* resultPath.replace(COMPLETE_DIR, ''): the first occurrence, if there is one
StripCompleteDir(resultPath) ==
    LET n == Len(COMPLETE_DIR)
        at == {k \in 1..(Len(resultPath) - n + 1) :
                  SubSeq(resultPath, k, k + n - 1) = COMPLETE_DIR}
    IN  IF at = {} THEN resultPath
        ELSE LET k == CHOOSE j \in at : \A m \in at : j <= m
             IN  SubSeq(resultPath, 1, k - 1) \o SubSeq(resultPath, k + n, Len(resultPath))

\* `/uploads/complete${relativeFilePath}`
RelativeUrl(resultPath) ==
    <<Seg("uploads"), Seg("complete")>> \o StripCompleteDir(resultPath)

\* variant of findDuplicateFile that finds nothing; DedupSharesArtifact does
\* not hold of it
findDuplicateFileNever(map, hash) == NoPath

\* fileHashMap.get(hash) || null
findDuplicateFile(map, hash) == IF hash \in DOMAIN map THEN map[hash] ELSE NoPath

NoResult == [path |-> NoPath, hash |-> 0, url |-> <<>>, isDuplicate |-> FALSE]

-----------------------------------------------------------------------------
(* Requests *)

NoResp == [code |-> 0, msg |-> ""]

IdleTask ==
    [op |-> "none", pc |-> "idle", fileId |-> 0, chunkIndex |-> 0, chunk |-> "",
     md5 |-> 0, status |-> NoObj, toSave |-> NoObj, filePath |-> NoPath,
     i |-> 0, result |-> NoResult, outcome |-> "", ready |-> FALSE, sum |-> 0,
     resp |-> NoResp]

\* res.status(code).json(body): the request is over; its inputs stay readable,
\* and so do ready and sum, which record what finalize found when it was
\* called, and result, which records what assembleFile returned to it
Respond(task, code, msg, body) ==
    [IdleTask EXCEPT !.op = task.op, !.pc = "done", !.fileId = task.fileId,
                     !.chunkIndex = task.chunkIndex, !.chunk = task.chunk,
                     !.md5 = task.md5, !.filePath = task.filePath,
                     !.ready = task.ready, !.sum = task.sum,
                     !.result = task.result,
                     !.resp = body @@ [code |-> code, msg |-> msg]]

InFlight == {t \in Slots : tasks[t].pc \notin {"idle", "done"}}

\* limit.inFlight requests run at once; where limit.budgeted, limit.requests
\* of them are accepted in all
Accepted(limit) == IF limit.budgeted THEN served + 1 ELSE served

\* the responses of the finished requests are delivered before a request starts
Delivered == \A u \in Slots : tasks[u].pc # "done"

\* a request is accepted into the lowest idle slot
CanStart(limit, t) ==
    /\ Cardinality(InFlight) < limit.inFlight
    /\ limit.budgeted => served < limit.requests
    /\ Delivered
    /\ tasks[t].pc = "idle"
    /\ \A u \in Slots : u < t => tasks[u].pc # "idle"

-----------------------------------------------------------------------------
(* Object identity *)

OidsOf(mem, tsk) ==
    {mem[f].oid : f \in DOMAIN mem} \cup {tsk[u].status.oid : u \in Slots}

RcRefsOf(mem, tsk) ==
    {mem[f].rcRef : f \in DOMAIN mem} \cup {tsk[u].status.rcRef : u \in Slots}

\* status.<field> = value on the object oid: seen by every holder of it
AssignIn(o, oid, upd) == IF oid # 0 /\ o.oid = oid THEN Spread(o, upd) ELSE o

AssignMem(mem, oid, upd) == [f \in DOMAIN mem |-> AssignIn(mem[f], oid, upd)]

AssignTasks(tsk, oid, upd) ==
    [u \in Slots |-> [tsk[u] EXCEPT !.status = AssignIn(@, oid, upd)]]

\* status.receivedChunks.add(x) on the Set rcRef: seen by every holder of it
AddIn(o, rcRef, x) ==
    IF rcRef # 0 /\ o.rcRef = rcRef
    THEN [o EXCEPT !.receivedChunks = SetAdd(@, x)]
    ELSE o

AddMem(mem, rcRef, x) == [f \in DOMAIN mem |-> AddIn(mem[f], rcRef, x)]

AddTasks(tsk, rcRef, x) ==
    [u \in Slots |-> [tsk[u] EXCEPT !.status = AddIn(@, rcRef, x)]]

-----------------------------------------------------------------------------
(* The status store: saveUploadStatus, getUploadStatus *)

\* the receivedChunks and rcRef a caller passes with its status object
ChunksOf(o) == [receivedChunks |-> o.receivedChunks, rcRef |-> o.rcRef]

\* variant of RedisMerge in which the stored fields win over the update;
\* PauseResumeTransitions does not hold of it
RedisMergeKeepsOld(currentStatus, data) ==
    LET merged == Spread(data, currentStatus)
        arr == IF Has(data, "receivedChunks") THEN ArrayFrom(data.receivedChunks)
               ELSE IF Has(currentStatus, "receivedChunks")
                    THEN currentStatus.receivedChunks
               ELSE <<>>
    IN  Spread(merged, [receivedChunks |-> arr, oid |-> 0, rcRef |-> 0])

\* saveUploadStatus, Redis branch, from the value read to the value written
RedisMerge(currentStatus, data) ==
    LET merged == Spread(currentStatus, data)
        arr == IF Has(data, "receivedChunks") THEN ArrayFrom(data.receivedChunks)
               ELSE IF Has(currentStatus, "receivedChunks")
                    THEN currentStatus.receivedChunks
               ELSE <<>>
    IN  Spread(merged, [receivedChunks |-> arr, oid |-> 0, rcRef |-> 0])

RedisCurrent(fileId) ==
    IF fileId \in DOMAIN redisStore THEN redisStore[fileId] ELSE NoObj

\* saveUploadStatus, in-memory branch: a new object, the Set shared or created
MemorySave(mem, tsk, fileId, data) ==
    LET current == IF fileId \in DOMAIN mem THEN mem[fileId] ELSE NoObj
        others == [g \in (DOMAIN mem) \ {fileId} |-> mem[g]]
        merged == Spread(current, data)
        withSet == IF Has(merged, "receivedChunks") THEN merged
                   ELSE Spread(merged, [receivedChunks |-> <<>>,
                                        rcRef |-> FreshId(RcRefsOf(others, tsk))])
        newStatus == [withSet EXCEPT !.oid = FreshId(OidsOf(others, tsk))]
    IN  (fileId :> newStatus) @@ mem

\* whether getUploadStatus finds a record
Stored(fileId) ==
    IF redisClient THEN fileId \in DOMAIN redisStore
    ELSE fileId \in DOMAIN memoryUploadStatus

\* getUploadStatus: the stored object itself, or a copy parsed from Redis
getUploadStatus(fileId) ==
    IF redisClient
    THEN LET parsed == redisStore[fileId]
             arr == IF Has(parsed, "receivedChunks") THEN parsed.receivedChunks
                    ELSE <<>>
         IN  Spread(parsed,
                    [receivedChunks |-> NewSet(arr),
                     oid |-> FreshId(OidsOf(memoryUploadStatus, tasks)),
                     rcRef |-> FreshId(RcRefsOf(memoryUploadStatus, tasks))])
    ELSE memoryUploadStatus[fileId]

\* what a handler answers once its status is saved
SavedResponse(task) ==
    CASE task.op = "init" ->
            Respond(task, 201, "Upload initialized successfully.", <<>>)
      [] task.op = "chunk" ->
            Respond(task, 200, "Chunk recibido", <<>>)
      [] task.op = "pause" ->
            Respond(task, 200, "Upload paused successfully.", <<>>)
      [] task.op = "resume" ->
            Respond(task, 200, "Upload resumed successfully.",
                    [receivedChunks |-> SortAsc(ArrayFrom(task.status.receivedChunks))])
      [] OTHER ->
            Respond(task, 200, "File uploaded and assembled successfully.",
                    [fileUrl |-> <<Seg("http://localhost:3001")>> \o task.result.url,
                     md5Hash |-> task.result.hash])

\* saveUploadStatus(fileId, data) called by task t, whose fields are in tsk
\* and whose mutations are already applied to mem
Save(t, mem, tsk, data) ==
    IF redisClient
    THEN /\ tasks' = [tsk EXCEPT ![t].pc = "saveGet", ![t].toSave = data]
         /\ memoryUploadStatus' = mem
         /\ UNCHANGED redisStore
    ELSE LET rest == [tsk EXCEPT ![t] = SavedResponse(tsk[t])]
         IN  /\ memoryUploadStatus' = MemorySave(mem, rest, tsk[t].fileId, data)
             /\ tasks' = rest
             /\ UNCHANGED redisStore

\* what a handler answers when saveUploadStatus has thrown
FailedResponse(task) ==
    CASE task.op = "init" ->
            Respond(task, 500, "Failed to initialize upload session.", <<>>)
      [] task.op = "chunk" ->
            Respond(task, 500, "Error interno al procesar el chunk", <<>>)
      [] task.op = "pause" ->
            Respond(task, 500, "Failed to pause upload.", <<>>)
      [] OTHER ->
            Respond(task, 500, "Failed to resume upload.", <<>>)

\* the awaited call of the Redis client rejects, the connection being closed:
\* saveUploadStatus re-throws; the catch of finalize deletes the status, that
\* of the other handlers answers 500
SaveRejected(t) ==
    IF tasks[t].op = "finalize"
    THEN /\ tasks' = [tasks EXCEPT ![t] =
                         [@ EXCEPT !.outcome = "error", !.pc = "cleanup"]]
         /\ memoryUploadStatus' =
               [g \in (DOMAIN memoryUploadStatus) \ {tasks[t].fileId} |->
                   memoryUploadStatus[g]]
    ELSE /\ tasks' = [tasks EXCEPT ![t] = FailedResponse(@)]
         /\ UNCHANGED memoryUploadStatus

\* await redisClient.get(`upload:${fileId}`) in saveUploadStatus
SaveGet(t) ==
    /\ UNCHANGED <<served, retry, sweep>>
    /\ tasks[t].pc = "saveGet"
    /\ IF redisClient
       THEN /\ tasks' = [tasks EXCEPT ![t].pc = "saveSet",
                             ![t].toSave = RedisMerge(RedisCurrent(tasks[t].fileId), @)]
            /\ UNCHANGED memoryUploadStatus
       ELSE SaveRejected(t)
    /\ UNCHANGED <<redisClient, redisStore, chunkFiles, completeFiles,
                   fileHashMap, nextFileId, now>>

\* await redisClient.set(...) in saveUploadStatus, then the handler's answer
SaveSet(t) ==
    /\ UNCHANGED <<served, retry, sweep>>
    /\ tasks[t].pc = "saveSet"
    /\ IF redisClient
       THEN /\ redisStore' = (tasks[t].fileId :> tasks[t].toSave) @@ redisStore
            /\ tasks' = [tasks EXCEPT ![t] = SavedResponse(@)]
            /\ UNCHANGED memoryUploadStatus
       ELSE /\ SaveRejected(t)
            /\ UNCHANGED redisStore
    /\ UNCHANGED <<redisClient, chunkFiles, completeFiles,
                   fileHashMap, nextFileId, now>>

-----------------------------------------------------------------------------
(* POST /init *)

StartInit(limit, sessions, t, fileName, fileSize, fileType, totalChunks) ==
    /\ served' = Accepted(limit)
    /\ UNCHANGED <<retry, sweep>>
    /\ CanStart(limit, t)
    /\ nextFileId < sessions
    /\ LET task == [IdleTask EXCEPT !.op = "init"]
       IN  IF fileName = "" \/ fileSize = 0 \/ fileType = NoType \/ totalChunks = 0
           THEN /\ tasks' = [tasks EXCEPT ![t] =
                                Respond(task, 400, "Faltan parametros requeridos", <<>>)]
                /\ UNCHANGED <<world, now>>
           ELSE LET fileId == nextFileId + 1
                    initialStatus ==
                        [oid |-> FreshId(OidsOf(memoryUploadStatus, tasks)),
                         rcRef |-> FreshId(RcRefsOf(memoryUploadStatus, tasks)),
                         totalChunks |-> totalChunks, receivedChunks |-> <<>>,
                         fileName |-> fileName, fileType |-> fileType,
                         isPaused |-> FALSE, isCompleted |-> FALSE]
                    data == [k \in (DOMAIN initialStatus) \ {"oid"} |-> initialStatus[k]]
                    tsk == [tasks EXCEPT ![t] =
                               [task EXCEPT !.fileId = fileId, !.status = initialStatus]]
                IN  /\ nextFileId' = fileId
                    /\ Save(t, memoryUploadStatus, tsk, data)
                    /\ UNCHANGED <<redisClient, chunkFiles, completeFiles,
                                   fileHashMap, now>>

-----------------------------------------------------------------------------
(* GET /status/:fileId *)

\* the body of the status response
StatusBody(status) ==
    LET size == Len(status.receivedChunks)
        total == IF Has(status, "totalChunks") THEN status.totalChunks ELSE 0
        shown == {"fileName", "fileType", "totalChunks", "isPaused", "isCompleted"}
                     \cap DOMAIN status
    IN  [k \in shown |-> status[k]] @@
        [receivedChunks |-> ArrayFrom(status.receivedChunks),
         totalUploaded |-> size, progress |-> Progress(size, total)]

StartStatus(limit, t, fileId) ==
    /\ served' = Accepted(limit)
    /\ UNCHANGED <<retry, sweep>>
    /\ CanStart(limit, t)
    /\ LET task == [IdleTask EXCEPT !.op = "status", !.fileId = fileId]
       IN  IF ~Stored(fileId)
           THEN tasks' = [tasks EXCEPT ![t] =
                             Respond(task, 404, "ID de carga no encontrado", <<>>)]
           ELSE tasks' = [tasks EXCEPT ![t] =
                    Respond(task, 200, "status", StatusBody(getUploadStatus(fileId)))]
    /\ UNCHANGED <<world, now>>

-----------------------------------------------------------------------------
(* POST /chunk/:fileId/:chunkIndex *)

\* validateFileId; the multipart body is parsed before the handler runs
StartChunk(limit, t, fileId, chunkIndex, chunk) ==
    /\ served' = Accepted(limit)
    /\ UNCHANGED <<retry, sweep>>
    /\ CanStart(limit, t)
    /\ LET task == [IdleTask EXCEPT !.op = "chunk", !.fileId = fileId,
                                    !.chunkIndex = chunkIndex, !.chunk = chunk]
       IN  IF ~Stored(fileId)
           THEN tasks' = [tasks EXCEPT ![t] =
                             Respond(task, 404, "Upload session not found.", <<>>)]
           ELSE tasks' = [tasks EXCEPT ![t] =
                             [task EXCEPT !.pc = "handler",
                                          !.status = getUploadStatus(fileId)]]
    /\ UNCHANGED <<world, now>>

\* variant of ChunkHandler that does not look at isPaused; PausedChunkRejected
\* does not hold of it
ChunkHandlerNoPause(t) ==
    /\ UNCHANGED <<served, retry, sweep>>
    /\ tasks[t].op = "chunk"
    /\ tasks[t].pc = "handler"
    /\ LET task == tasks[t]
           status == task.status
           answer(code, msg) == tasks' = [tasks EXCEPT ![t] = Respond(task, code, msg, <<>>)]
       IN  IF task.chunk = ""
           THEN answer(400, "Chunk no proporcionado")
           ELSE IF task.chunkIndex < 0
                   \/ (Has(status, "totalChunks") /\ task.chunkIndex >= status.totalChunks)
           THEN answer(400, "Indice de chunk invalido")
           ELSE IF Has(status, "isCompleted") /\ status.isCompleted
           THEN answer(200, "Archivo ya completado")
           ELSE IF SetHas(status.receivedChunks, task.chunkIndex)
           THEN answer(200, "Chunk ya recibido")
           ELSE tasks' = [tasks EXCEPT ![t].pc = "write"]
    /\ UNCHANGED <<world, now>>

\* variant of ChunkHandler that lets the index totalChunks through;
\* IndexWithinTotal does not hold of it
ChunkHandlerPastEnd(t) ==
    /\ UNCHANGED <<served, retry, sweep>>
    /\ tasks[t].op = "chunk"
    /\ tasks[t].pc = "handler"
    /\ LET task == tasks[t]
           status == task.status
           answer(code, msg) == tasks' = [tasks EXCEPT ![t] = Respond(task, code, msg, <<>>)]
       IN  IF task.chunk = ""
           THEN answer(400, "Chunk no proporcionado")
           ELSE IF task.chunkIndex < 0
                   \/ (Has(status, "totalChunks") /\ task.chunkIndex > status.totalChunks)
           THEN answer(400, "Indice de chunk invalido")
           ELSE IF Has(status, "isCompleted") /\ status.isCompleted
           THEN answer(200, "Archivo ya completado")
           ELSE IF Has(status, "isPaused") /\ status.isPaused
           THEN answer(409, "La carga esta pausada")
           ELSE IF SetHas(status.receivedChunks, task.chunkIndex)
           THEN answer(200, "Chunk ya recibido")
           ELSE tasks' = [tasks EXCEPT ![t].pc = "write"]
    /\ UNCHANGED <<world, now>>

ChunkHandler(t) ==
    /\ UNCHANGED <<served, retry, sweep>>
    /\ tasks[t].op = "chunk"
    /\ tasks[t].pc = "handler"
    /\ LET task == tasks[t]
           status == task.status
           answer(code, msg) == tasks' = [tasks EXCEPT ![t] = Respond(task, code, msg, <<>>)]
       IN  IF task.chunk = ""
           THEN answer(400, "Chunk no proporcionado")
           ELSE IF task.chunkIndex < 0
                   \/ (Has(status, "totalChunks") /\ task.chunkIndex >= status.totalChunks)
           THEN answer(400, "Indice de chunk invalido")
           ELSE IF Has(status, "isCompleted") /\ status.isCompleted
           THEN answer(200, "Archivo ya completado")
           ELSE IF Has(status, "isPaused") /\ status.isPaused
           THEN answer(409, "La carga esta pausada")
           ELSE IF SetHas(status.receivedChunks, task.chunkIndex)
           THEN answer(200, "Chunk ya recibido")
           ELSE tasks' = [tasks EXCEPT ![t].pc = "write"]
    /\ UNCHANGED <<world, now>>

\* await saveChunk; status.receivedChunks.add; saveUploadStatus
ChunkWrite(t) ==
    /\ UNCHANGED <<served, retry, sweep>>
    /\ tasks[t].pc = "write"
    /\ LET task == tasks[t]
           rcRef == task.status.rcRef
           tsk == AddTasks(tasks, rcRef, task.chunkIndex)
           mem == AddMem(memoryUploadStatus, rcRef, task.chunkIndex)
       IN  /\ chunkFiles' = saveChunk(chunkFiles, task.fileId, task.chunkIndex,
                                      task.chunk, now)
           /\ Save(t, mem, tsk, ChunksOf(tsk[t].status))
    /\ UNCHANGED <<redisClient, completeFiles, fileHashMap, nextFileId, now>>

-----------------------------------------------------------------------------
(* PUT /pause/:fileId, PUT /resume/:fileId *)

StartPause(limit, t, fileId) ==
    /\ served' = Accepted(limit)
    /\ UNCHANGED <<retry, sweep>>
    /\ CanStart(limit, t)
    /\ LET task == [IdleTask EXCEPT !.op = "pause", !.fileId = fileId]
           answer(code, msg) ==
               /\ tasks' = [tasks EXCEPT ![t] = Respond(task, code, msg, <<>>)]
               /\ UNCHANGED <<redisStore, memoryUploadStatus>>
       IN  IF ~Stored(fileId)
           THEN answer(404, "Upload session not found.")
           ELSE LET status == getUploadStatus(fileId)
                    upd == [isPaused |-> TRUE]
                    tsk == [tasks EXCEPT ![t] =
                               [task EXCEPT !.status = Spread(status, upd)]]
                IN  IF Has(status, "isCompleted") /\ status.isCompleted
                    THEN answer(400, "Upload already completed.")
                    ELSE IF Has(status, "isPaused") /\ status.isPaused
                    THEN answer(200, "Upload already paused.")
                    ELSE Save(t, AssignMem(memoryUploadStatus, status.oid, upd),
                              AssignTasks(tsk, status.oid, upd), upd)
    /\ UNCHANGED <<redisClient, chunkFiles, completeFiles, fileHashMap,
                   nextFileId, now>>

StartResume(limit, t, fileId) ==
    /\ served' = Accepted(limit)
    /\ UNCHANGED <<retry, sweep>>
    /\ CanStart(limit, t)
    /\ LET task == [IdleTask EXCEPT !.op = "resume", !.fileId = fileId]
           answer(code, msg) ==
               /\ tasks' = [tasks EXCEPT ![t] = Respond(task, code, msg, <<>>)]
               /\ UNCHANGED <<redisStore, memoryUploadStatus>>
       IN  IF ~Stored(fileId)
           THEN answer(404, "Upload session not found.")
           ELSE LET status == getUploadStatus(fileId)
                    upd == [isPaused |-> FALSE]
                    tsk == [tasks EXCEPT ![t] =
                               [task EXCEPT !.status = Spread(status, upd)]]
                IN  IF Has(status, "isCompleted") /\ status.isCompleted
                    THEN answer(400, "Upload already completed.")
                    ELSE IF ~(Has(status, "isPaused") /\ status.isPaused)
                    THEN answer(200, "Upload is not paused.")
                    ELSE Save(t, AssignMem(memoryUploadStatus, status.oid, upd),
                              AssignTasks(tsk, status.oid, upd), upd)
    /\ UNCHANGED <<redisClient, chunkFiles, completeFiles, fileHashMap,
                   nextFileId, now>>

-----------------------------------------------------------------------------
(* deleteUploadStatusAndChunks *)

\* the call: the in-memory delete is synchronous, the Redis del is awaited
DeleteBegun(task, outcome) ==
    [task EXCEPT !.outcome = outcome,
                 !.pc = IF redisClient THEN "delStatus" ELSE "cleanup"]

\* the in-memory table as it would be if the delete were left out
MemoryKept(fileId) == memoryUploadStatus

MemoryDeleted(fileId) ==
    IF redisClient THEN memoryUploadStatus
    ELSE [g \in (DOMAIN memoryUploadStatus) \ {fileId} |-> memoryUploadStatus[g]]

\* a throw inside the try block of finalize: the catch deletes the status
Throw(t) ==
    /\ tasks' = [tasks EXCEPT ![t] = DeleteBegun(@, "error")]
    /\ memoryUploadStatus' = MemoryDeleted(tasks[t].fileId)

\* what the caller of deleteUploadStatusAndChunks does when it has returned
AfterDelete(task) ==
    CASE task.outcome = "error" ->
           Respond(task, 500, "Failed to assemble file.", <<>>)
      [] task.outcome = "md5" ->
           Respond(task, 400, "File integrity check failed (MD5 mismatch).", <<>>)
      [] OTHER ->
           IF Has(task.status, "filePath")
           THEN [task EXCEPT !.pc = "cancelUnlink"]
           ELSE Respond(task, 200, "Upload cancelled and cleaned up successfully.", <<>>)

\* await redisClient.del(`upload:${fileId}`); if it rejects, the catch of
\* deleteUploadStatusAndChunks logs it and cleanupOldChunks is not called
DelStatus(t) ==
    /\ UNCHANGED <<served, retry, sweep>>
    /\ tasks[t].pc = "delStatus"
    /\ IF redisClient
       THEN /\ redisStore' = [g \in (DOMAIN redisStore) \ {tasks[t].fileId} |->
                                 redisStore[g]]
            /\ tasks' = [tasks EXCEPT ![t].pc = "cleanup"]
       ELSE /\ tasks' = [tasks EXCEPT ![t] = AfterDelete(@)]
            /\ UNCHANGED redisStore
    /\ UNCHANGED <<redisClient, memoryUploadStatus, chunkFiles, completeFiles,
                   fileHashMap, nextFileId, now>>

\* await cleanupOldChunks(), then what the caller does next
Cleanup(t) ==
    /\ UNCHANGED <<served, retry, sweep>>
    /\ tasks[t].pc = "cleanup"
    /\ chunkFiles' = cleanupOldChunks(chunkFiles, now)
    /\ tasks' = [tasks EXCEPT ![t] = AfterDelete(@)]
    /\ UNCHANGED <<redisClient, redisStore, memoryUploadStatus, completeFiles,
                   fileHashMap, nextFileId, now>>

-----------------------------------------------------------------------------
(* DELETE /cancel/:fileId *)

StartCancel(limit, t, fileId) ==
    /\ served' = Accepted(limit)
    /\ UNCHANGED <<retry, sweep>>
    /\ CanStart(limit, t)
    /\ LET task == [IdleTask EXCEPT !.op = "cancel", !.fileId = fileId]
       IN  IF ~Stored(fileId)
           THEN /\ tasks' = [tasks EXCEPT ![t] =
                                Respond(task, 404, "Upload session not found.", <<>>)]
                /\ UNCHANGED memoryUploadStatus
           ELSE /\ tasks' = [tasks EXCEPT ![t] =
                                DeleteBegun([task EXCEPT !.status = getUploadStatus(fileId)],
                                            "cancel")]
                /\ memoryUploadStatus' = MemoryDeleted(fileId)
    /\ UNCHANGED <<redisClient, redisStore, chunkFiles, completeFiles,
                   fileHashMap, nextFileId, now>>

\* await fs.unlink(status.filePath); a missing file is not an error
CancelUnlink(t) ==
    /\ UNCHANGED <<served, retry, sweep>>
    /\ tasks[t].pc = "cancelUnlink"
    /\ completeFiles' = Unlink(completeFiles, tasks[t].status.filePath)
    /\ tasks' = [tasks EXCEPT ![t] =
                    Respond(@, 200, "Upload cancelled and cleaned up successfully.", <<>>)]
    /\ UNCHANGED <<redisClient, redisStore, memoryUploadStatus, chunkFiles,
                   fileHashMap, nextFileId, now>>

-----------------------------------------------------------------------------
(* POST /finalize/:fileId *)

\* variant of CompletedUrl that leaves the date folder out; RefinalizeReturnsSame
\* does not hold of it
CompletedUrlNoFolder(filePath) ==
    <<Seg("http://localhost:3001"), Seg("uploads"), Seg("complete"),
      filePath[Len(filePath)]>>

\* `http://localhost:3001/uploads/complete/${...dirname}/${path.basename(filePath)}`
CompletedUrl(filePath) ==
    <<Seg("http://localhost:3001"), Seg("uploads"), Seg("complete"),
      filePath[Len(filePath) - 1], filePath[Len(filePath)]>>

\* finalize is called on an upload that is not completed, every index received,
\* every chunk in the chunk store and chunk 0 of the declared type
ReadyToFinalize(fileId, status) ==
    /\ Has(status, "totalChunks") /\ Has(status, "fileType")
    /\ status.totalChunks >= 1
    /\ ~(Has(status, "isCompleted") /\ status.isCompleted)
    /\ Members(status.receivedChunks) = 0..(status.totalChunks - 1)
    /\ \A i \in 0..(status.totalChunks - 1) : getChunkPath(fileId, i) \in DOMAIN chunkFiles
    /\ validateFileType(chunkFiles[getChunkPath(fileId, 0)].data, status.fileType)

\* the md5 of the chunks 0..totalChunks-1 of the chunk store, in that order
ChunksSum(fileId, status) ==
    Md5([k \in 1..status.totalChunks |-> chunkFiles[getChunkPath(fileId, k - 1)].data])

\* variant of FinalizeProceed whose size check is off by one; FullFlowCompletes
\* does not hold of it
FinalizeProceedOffByOne(task) ==
    LET status == task.status
        total == [k \in {"totalChunks"} \cap DOMAIN status |-> status[k]]
    IN  IF ~Has(status, "totalChunks") \/ Len(status.receivedChunks) # status.totalChunks - 1
        THEN Respond(task, 400, "Not all chunks have been uploaded.",
                     total @@ [receivedChunks |-> SortAsc(ArrayFrom(status.receivedChunks))])
        ELSE [task EXCEPT !.pc = "asmStart"]

\* the check of receivedChunks.size, then the call of assembleFile
FinalizeProceed(task) ==
    LET status == task.status
        total == [k \in {"totalChunks"} \cap DOMAIN status |-> status[k]]
    IN  IF ~Has(status, "totalChunks") \/ Len(status.receivedChunks) # status.totalChunks
        THEN Respond(task, 400, "Not all chunks have been uploaded.",
                     total @@ [receivedChunks |-> SortAsc(ArrayFrom(status.receivedChunks))])
        ELSE [task EXCEPT !.pc = "asmStart"]

StartFinalize(limit, t, fileId, md5) ==
    /\ served' = Accepted(limit)
    /\ UNCHANGED <<retry, sweep>>
    /\ CanStart(limit, t)
    /\ LET task == [IdleTask EXCEPT !.op = "finalize", !.fileId = fileId, !.md5 = md5]
       IN  IF ~Stored(fileId)
           THEN tasks' = [tasks EXCEPT ![t] =
                             Respond(task, 404, "Upload session not found.", <<>>)]
           ELSE LET status == getUploadStatus(fileId)
                    ready == ReadyToFinalize(fileId, status)
                    held == [task EXCEPT !.status = status, !.ready = ready,
                                         !.sum = IF ready THEN ChunksSum(fileId, status)
                                                 ELSE 0]
                IN  IF Has(status, "isCompleted") /\ status.isCompleted
                       /\ Has(status, "filePath")
                    THEN tasks' = [tasks EXCEPT ![t] = [held EXCEPT !.pc = "access"]]
                    ELSE tasks' = [tasks EXCEPT ![t] = FinalizeProceed(held)]
    /\ UNCHANGED <<world, now>>

\* variant of FinalizeAccess that does not look for the file;
\* RefinalizeReassembles does not hold of it
FinalizeAccessBlind(t) ==
    /\ UNCHANGED <<served, retry, sweep>>
    /\ tasks[t].pc = "access"
    /\ LET task == tasks[t]
           status == task.status
           md5Hash == [k \in {"md5Hash"} \cap DOMAIN status |-> status[k]]
       IN  tasks' = [tasks EXCEPT ![t] =
                    Respond(task, 200, "Upload already completed.",
                            md5Hash @@ [fileUrl |-> CompletedUrl(status.filePath)])]
    /\ UNCHANGED <<world, now>>

\* await fs.access(status.filePath)
FinalizeAccess(t) ==
    /\ UNCHANGED <<served, retry, sweep>>
    /\ tasks[t].pc = "access"
    /\ LET task == tasks[t]
           status == task.status
           md5Hash == [k \in {"md5Hash"} \cap DOMAIN status |-> status[k]]
       IN  IF status.filePath \in DOMAIN completeFiles
           THEN tasks' = [tasks EXCEPT ![t] =
                    Respond(task, 200, "Upload already completed.",
                            md5Hash @@ [fileUrl |-> CompletedUrl(status.filePath)])]
           ELSE tasks' = [tasks EXCEPT ![t] = FinalizeProceed(task)]
    /\ UNCHANGED <<world, now>>

-----------------------------------------------------------------------------
(* assembleFile, called by finalize *)

\* the date folder exists; the unique name is taken and the write stream opened
AsmStart(t) ==
    /\ UNCHANGED <<served, retry, sweep>>
    /\ tasks[t].pc = "asmStart"
    /\ LET filePath == UniquePath(tasks[t].status.fileName, now)
       IN  /\ completeFiles' = (filePath :> <<>>) @@ completeFiles
           /\ tasks' = [tasks EXCEPT ![t].pc = "asmRead0", ![t].filePath = filePath]
    /\ UNCHANGED <<redisClient, redisStore, memoryUploadStatus, chunkFiles,
                   fileHashMap, nextFileId, now>>

\* await fsReadFile(firstChunkPath); validateFileType
AsmRead0(t) ==
    /\ UNCHANGED <<served, retry, sweep>>
    /\ tasks[t].pc = "asmRead0"
    /\ LET task == tasks[t]
           firstChunkPath == getChunkPath(task.fileId, 0)
       IN  IF firstChunkPath \notin DOMAIN chunkFiles
           THEN Throw(t)
           ELSE IF ~validateFileType(chunkFiles[firstChunkPath].data, task.status.fileType)
           THEN Throw(t)
           ELSE /\ tasks' = [tasks EXCEPT ![t].pc = "asmChunk", ![t].i = 0]
                /\ UNCHANGED memoryUploadStatus
    /\ UNCHANGED <<redisClient, redisStore, chunkFiles, completeFiles,
                   fileHashMap, nextFileId, now>>

\* variant of AsmChunk that takes the chunks from the last index down;
\* AssemblyInOrder does not hold of it
AsmChunkDescending(t) ==
    /\ UNCHANGED <<served, retry, sweep>>
    /\ tasks[t].pc = "asmChunk"
    /\ LET task == tasks[t]
           chunkPath == getChunkPath(task.fileId, task.status.totalChunks - 1 - task.i)
       IN  IF chunkPath \notin DOMAIN chunkFiles
           THEN /\ Throw(t)
                /\ UNCHANGED completeFiles
           ELSE /\ tasks' = [tasks EXCEPT ![t].pc = "asmUnlink"]
                /\ completeFiles' =
                      IF task.filePath \in DOMAIN completeFiles
                      THEN [completeFiles EXCEPT ![task.filePath] =
                               Append(@, chunkFiles[chunkPath].data)]
                      ELSE completeFiles
                /\ UNCHANGED memoryUploadStatus
    /\ UNCHANGED <<redisClient, redisStore, chunkFiles, fileHashMap, nextFileId, now>>

\* fsExists(chunkPath), fsReadFile(chunkPath), writeStream.write(chunkData)
AsmChunk(t) ==
    /\ UNCHANGED <<served, retry, sweep>>
    /\ tasks[t].pc = "asmChunk"
    /\ LET task == tasks[t]
           chunkPath == getChunkPath(task.fileId, task.i)
       IN  IF chunkPath \notin DOMAIN chunkFiles
           THEN /\ Throw(t)
                /\ UNCHANGED completeFiles
           ELSE /\ tasks' = [tasks EXCEPT ![t].pc = "asmUnlink"]
                /\ completeFiles' =
                      IF task.filePath \in DOMAIN completeFiles
                      THEN [completeFiles EXCEPT ![task.filePath] =
                               Append(@, chunkFiles[chunkPath].data)]
                      ELSE completeFiles
                /\ UNCHANGED memoryUploadStatus
    /\ UNCHANGED <<redisClient, redisStore, chunkFiles, fileHashMap, nextFileId, now>>

\* variant of AsmUnlink that leaves the chunk file in place;
\* ConsumedChunksDeleted does not hold of it
AsmUnlinkKeeps(t) ==
    /\ UNCHANGED <<served, retry, sweep>>
    /\ tasks[t].pc = "asmUnlink"
    /\ LET task == tasks[t]
           chunkPath == getChunkPath(task.fileId, task.i)
       IN  IF chunkPath \notin DOMAIN chunkFiles
           THEN /\ Throw(t)
                /\ UNCHANGED chunkFiles
           ELSE /\ chunkFiles' = chunkFiles
                /\ tasks' = [tasks EXCEPT
                                ![t].pc = IF task.i + 1 < task.status.totalChunks
                                          THEN "asmChunk" ELSE "asmHash",
                                ![t].i = task.i + 1]
                /\ UNCHANGED memoryUploadStatus
    /\ UNCHANGED <<redisClient, redisStore, completeFiles, fileHashMap, nextFileId, now>>

\* await fsUnlink(chunkPath), then the next turn of the loop
AsmUnlink(t) ==
    /\ UNCHANGED <<served, retry, sweep>>
    /\ tasks[t].pc = "asmUnlink"
    /\ LET task == tasks[t]
           chunkPath == getChunkPath(task.fileId, task.i)
       IN  IF chunkPath \notin DOMAIN chunkFiles
           THEN /\ Throw(t)
                /\ UNCHANGED chunkFiles
           ELSE /\ chunkFiles' = Unlink(chunkFiles, chunkPath)
                /\ tasks' = [tasks EXCEPT
                                ![t].pc = IF task.i + 1 < task.status.totalChunks
                                          THEN "asmChunk" ELSE "asmHash",
                                ![t].i = task.i + 1]
                /\ UNCHANGED memoryUploadStatus
    /\ UNCHANGED <<redisClient, redisStore, completeFiles, fileHashMap, nextFileId, now>>

\* what finalize does with the result of assembleFile
AfterAssemble(t, task) ==
    LET result == task.result
        upd == [isCompleted |-> TRUE, filePath |-> result.path, md5Hash |-> result.hash]
        oid == task.status.oid
        tsk == [tasks EXCEPT ![t] = task]
    IN  IF task.md5 # 0 /\ task.md5 # result.hash
        THEN /\ tasks' = [tasks EXCEPT ![t] = [task EXCEPT !.pc = "md5Unlink"]]
             /\ UNCHANGED <<redisStore, memoryUploadStatus>>
        ELSE Save(t, AssignMem(memoryUploadStatus, oid, upd),
                  AssignTasks(tsk, oid, upd), upd)

\* variant of AsmHash that looks the hash up and does not register it;
\* DedupLookupAtomic does not hold of it
AsmHashNoSet(t) ==
    /\ UNCHANGED <<served, retry, sweep>>
    /\ tasks[t].pc = "asmHash"
    /\ LET task == tasks[t]
           filePath == task.filePath
       IN  IF filePath \notin DOMAIN completeFiles
           THEN /\ Throw(t)
                /\ UNCHANGED <<redisStore, fileHashMap>>
           ELSE LET fileHash == Md5(completeFiles[filePath])
                    duplicateFilePath == findDuplicateFile(fileHashMap, fileHash)
                IN  IF duplicateFilePath # NoPath
                    THEN /\ tasks' = [tasks EXCEPT ![t].pc = "asmDropDup",
                                         ![t].result =
                                             [path |-> duplicateFilePath, hash |-> fileHash,
                                              url |-> RelativeUrl(duplicateFilePath),
                                              isDuplicate |-> TRUE]]
                         /\ UNCHANGED <<redisStore, memoryUploadStatus, fileHashMap>>
                    ELSE /\ fileHashMap' = fileHashMap
                         /\ AfterAssemble(t, [task EXCEPT !.result =
                                                 [path |-> filePath, hash |-> fileHash,
                                                  url |-> RelativeUrl(filePath),
                                                  isDuplicate |-> FALSE]])
    /\ UNCHANGED <<redisClient, chunkFiles, completeFiles, nextFileId, now>>

\* the stream is closed; calculateFileHash; findDuplicateFile / fileHashMap.set
AsmHash(t) ==
    /\ UNCHANGED <<served, retry, sweep>>
    /\ tasks[t].pc = "asmHash"
    /\ LET task == tasks[t]
           filePath == task.filePath
       IN  IF filePath \notin DOMAIN completeFiles
           THEN /\ Throw(t)
                /\ UNCHANGED <<redisStore, fileHashMap>>
           ELSE LET fileHash == Md5(completeFiles[filePath])
                    duplicateFilePath == findDuplicateFile(fileHashMap, fileHash)
                IN  IF duplicateFilePath # NoPath
                    THEN /\ tasks' = [tasks EXCEPT ![t].pc = "asmDropDup",
                                         ![t].result =
                                             [path |-> duplicateFilePath, hash |-> fileHash,
                                              url |-> RelativeUrl(duplicateFilePath),
                                              isDuplicate |-> TRUE]]
                         /\ UNCHANGED <<redisStore, memoryUploadStatus, fileHashMap>>
                    ELSE /\ fileHashMap' = (fileHash :> filePath) @@ fileHashMap
                         /\ AfterAssemble(t, [task EXCEPT !.result =
                                                 [path |-> filePath, hash |-> fileHash,
                                                  url |-> RelativeUrl(filePath),
                                                  isDuplicate |-> FALSE]])
    /\ UNCHANGED <<redisClient, chunkFiles, completeFiles, nextFileId, now>>

\* await fsUnlink(filePath) of the newly written duplicate
AsmDropDup(t) ==
    /\ UNCHANGED <<served, retry, sweep>>
    /\ tasks[t].pc = "asmDropDup"
    /\ IF tasks[t].filePath \notin DOMAIN completeFiles
       THEN /\ Throw(t)
            /\ UNCHANGED <<redisStore, completeFiles>>
       ELSE /\ completeFiles' = Unlink(completeFiles, tasks[t].filePath)
            /\ AfterAssemble(t, tasks[t])
    /\ UNCHANGED <<redisClient, chunkFiles, fileHashMap, nextFileId, now>>

\* await fs.unlink(assemblyResult.path).catch(...), then the status is deleted
Md5Unlink(t) ==
    /\ UNCHANGED <<served, retry, sweep>>
    /\ tasks[t].pc = "md5Unlink"
    /\ completeFiles' = Unlink(completeFiles, tasks[t].result.path)
    /\ tasks' = [tasks EXCEPT ![t] = DeleteBegun(@, "md5")]
    /\ memoryUploadStatus' = MemoryDeleted(tasks[t].fileId)
    /\ UNCHANGED <<redisClient, redisStore, chunkFiles, fileHashMap, nextFileId, now>>

-----------------------------------------------------------------------------
(* The client: axiosWithRetry *)

MAX_RETRIES == 3

NoError == [response |-> FALSE, status |-> 0, message |-> "undefined"]
NoValue == [status |-> 0]

\* what the wrapped request rejects with: no response at all, or a response
\* with an error status and a message
Errors ==
    {[response |-> FALSE, status |-> 0, message |-> "Network Error"]} \cup
    [response : {TRUE}, status : {413, 500},
     message : {"Internal", "Field value too long", "LIMIT: Field value too long."}]

\* what it resolves with
Values == {[status |-> 200], [status |-> 201]}

\* message.includes("Field value too long")
IncludesTooLong(message) ==
    message \in {"Field value too long", "LIMIT: Field value too long."}

\* the test of the catch block for the error that is not retried
NotRetried(error) ==
    /\ error.response
    /\ error.status = 500
    /\ IncludesTooLong(error.message)

IdleRetry ==
    [pc |-> "idle", maxRetries |-> 0, delay |-> 0, attempt |-> 0,
     lastError |-> NoError, calls |-> 0, value |-> NoValue, error |-> NoError]

\* axiosWithRetry(fn, maxRetries, delay) is called; calls counts the
\* invocations of fn
RetryCall(maxRetries, delay) ==
    /\ retry.pc = "idle"
    /\ retry' = [IdleRetry EXCEPT !.pc = "loop", !.maxRetries = maxRetries,
                                  !.delay = delay]
    /\ UNCHANGED <<world, now, tasks, served, sweep>>

\* the test of the for loop as it would be with <= for <
RetryLoopOneMore ==
    /\ retry.pc = "loop"
    /\ retry' = IF retry.attempt <= retry.maxRetries
                THEN [retry EXCEPT !.pc = "await", !.calls = @ + 1]
                ELSE [retry EXCEPT !.pc = "rejected", !.error = retry.lastError]
    /\ UNCHANGED <<world, now, tasks, served, sweep>>

\* the test of the for loop: fn is invoked, or the loop is left and
\* lastError is thrown
RetryLoop ==
    /\ retry.pc = "loop"
    /\ retry' = IF retry.attempt < retry.maxRetries
                THEN [retry EXCEPT !.pc = "await", !.calls = @ + 1]
                ELSE [retry EXCEPT !.pc = "rejected", !.error = retry.lastError]
    /\ UNCHANGED <<world, now, tasks, served, sweep>>

\* fn resolves: return await fn()
RetryResolve(value) ==
    /\ retry.pc = "await"
    /\ retry' = [retry EXCEPT !.pc = "returned", !.value = value]
    /\ UNCHANGED <<world, now, tasks, served, sweep>>

\* fn rejects: the catch block
RetryCatch(error) ==
    /\ retry.pc = "await"
    /\ retry' = IF NotRetried(error)
                THEN [retry EXCEPT !.pc = "rejected", !.lastError = error,
                                   !.error = error]
                ELSE [retry EXCEPT !.pc = "sleep", !.lastError = error]
    /\ UNCHANGED <<world, now, tasks, served, sweep>>

\* the timer of the catch block fires: delay *= 2, attempt++
RetrySleep ==
    /\ retry.pc = "sleep"
    /\ retry' = [retry EXCEPT !.pc = "loop", !.delay = @ * 2, !.attempt = @ + 1]
    /\ UNCHANGED <<world, now, tasks, served, sweep>>

-----------------------------------------------------------------------------
(* The timer: cleanupOldChunks every 30 minutes *)

IdleSweep == [pc |-> "idle", files |-> <<>>, now |-> 0, k |-> 0, outcome |-> ""]

\* the orders in which fsReaddir may list the files
Listings(files) ==
    {order \in [1..Cardinality(DOMAIN files) -> DOMAIN files] :
        \A a, b \in DOMAIN order : a # b => order[a] # order[b]}

\* the pass is over: it resolved, or it rejected with what a call threw
SweepEnded(outcome) == [IdleSweep EXCEPT !.outcome = outcome]

\* the timer fires: fsReaddir(CHUNKS_DIR), now = Date.now()
SweepStart ==
    /\ sweep.pc = "idle"
    /\ \E order \in Listings(chunkFiles) :
          sweep' = [pc |-> "stat", files |-> order, now |-> now, k |-> 1, outcome |-> ""]
    /\ UNCHANGED <<world, now, tasks, served, retry>>

\* the pass as it would be if files of age maxAge were deleted too
SweepStatInclusive ==
    /\ sweep.pc = "stat"
    /\ sweep' =
          IF sweep.k > Len(sweep.files) THEN SweepEnded("resolved")
          ELSE LET filePath == sweep.files[sweep.k]
               IN  IF filePath \notin DOMAIN chunkFiles THEN SweepEnded("rejected")
                   ELSE IF sweep.now - chunkFiles[filePath].mtime >= maxAge
                   THEN [sweep EXCEPT !.pc = "unlink"]
                   ELSE [sweep EXCEPT !.k = @ + 1]
    /\ UNCHANGED <<world, now, tasks, served, retry>>

\* the test of the for loop, await fsStat(filePath), fileAge > maxAge; a
\* file that has gone since the listing makes fsStat reject, and the pass
\* with it
SweepStat ==
    /\ sweep.pc = "stat"
    /\ sweep' =
          IF sweep.k > Len(sweep.files) THEN SweepEnded("resolved")
          ELSE LET filePath == sweep.files[sweep.k]
               IN  IF filePath \notin DOMAIN chunkFiles THEN SweepEnded("rejected")
                   ELSE IF sweep.now - chunkFiles[filePath].mtime > maxAge
                   THEN [sweep EXCEPT !.pc = "unlink"]
                   ELSE [sweep EXCEPT !.k = @ + 1]
    /\ UNCHANGED <<world, now, tasks, served, retry>>

\* await fsUnlink(filePath); it rejects likewise when the file has gone
SweepUnlink ==
    /\ sweep.pc = "unlink"
    /\ LET filePath == sweep.files[sweep.k]
       IN  IF filePath \notin DOMAIN chunkFiles
           THEN /\ sweep' = SweepEnded("rejected")
                /\ UNCHANGED chunkFiles
           ELSE /\ sweep' = [sweep EXCEPT !.pc = "stat", !.k = @ + 1]
                /\ chunkFiles' = Unlink(chunkFiles, filePath)
    /\ UNCHANGED <<redisClient, redisStore, memoryUploadStatus, completeFiles,
                   fileHashMap, nextFileId, now, tasks, served, retry>>

-----------------------------------------------------------------------------
(* The environment *)

Tick ==
    /\ UNCHANGED <<served, retry, sweep>>
    /\ now < MaxClock
    /\ now' = now + 1
    /\ UNCHANGED <<world, tasks>>

\* redisClient.on('error'): the client is disconnected and dropped; the
\* calls that are awaiting it reject, and the in-memory table is used from
\* then on
RedisError ==
    /\ UNCHANGED <<served, retry, sweep>>
    /\ redisClient
    /\ redisClient' = FALSE
    /\ UNCHANGED <<redisStore, memoryUploadStatus, chunkFiles, completeFiles,
                   fileHashMap, nextFileId, now, tasks>>

\* the response has been delivered: the slot is free again
Retire(t) ==
    /\ UNCHANGED <<served, retry, sweep>>
    /\ tasks[t].pc = "done"
    /\ tasks' = [tasks EXCEPT ![t] = IdleTask]
    /\ UNCHANGED <<world, now>>

-----------------------------------------------------------------------------
(* Specifications *)

NoFiles == [p \in {} |-> <<>>]
NoStatus == [f \in {} |-> NoObj]

\* what a client may send: every kind of invalid input beside the valid ones
\* (md5 0 is "no md5 given", chunk "" is "no file part")
AllInputs ==
    [names |-> FileNames \cup {""}, sizes |-> {0, 1}, types |-> FileTypes \cup {NoType},
     totals |-> (-1)..MaxChunks, indices |-> (-1)..MaxChunks,
     chunks |-> ChunkData \cup {""}, md5s |-> {0, Md5(<<"PNG">>)}]

\* uploads of one chunk; the md5 given is not that of any accepted upload
SmallInputs ==
    [AllInputs EXCEPT !.totals = {0, 1}, !.indices = {0, 1},
                      !.md5s = {0, Md5(<<"EXE">>)}]

\* well-formed requests for an upload of MaxChunks chunks
ValidInputs ==
    [names |-> FileNames, sizes |-> {1}, types |-> FileTypes,
     totals |-> {MaxChunks}, indices |-> 0..(MaxChunks - 1),
     chunks |-> {"PNG"}, md5s |-> {0, Md5(<<"PNG">>)}]

Init ==
    /\ redisClient \in BOOLEAN
    /\ redisStore = NoStatus
    /\ memoryUploadStatus = NoStatus
    /\ chunkFiles = NoFiles
    /\ completeFiles = NoFiles
    /\ fileHashMap = NoFiles
    /\ now = 0
    /\ nextFileId = 0
    /\ tasks = [t \in Slots |-> IdleTask]
    /\ served = 0
    /\ retry = IdleRetry
    /\ sweep = IdleSweep

\* the requests of a client: at most limit in flight, at most sessions uploads
Requests(limit, sessions, in) ==
    \E t \in Slots :
        \/ \E fileName \in in.names, fileSize \in in.sizes,
              fileType \in in.types, totalChunks \in in.totals :
              StartInit(limit, sessions, t, fileName, fileSize, fileType, totalChunks)
        \/ \E fileId \in 1..sessions :
              \/ StartStatus(limit, t, fileId)
              \/ StartPause(limit, t, fileId)
              \/ StartResume(limit, t, fileId)
              \/ StartCancel(limit, t, fileId)
              \/ \E md5 \in in.md5s : StartFinalize(limit, t, fileId, md5)
              \/ \E chunkIndex \in in.indices, chunk \in in.chunks :
                    StartChunk(limit, t, fileId, chunkIndex, chunk)

Steps ==
    \E t \in Slots :
        \/ SaveGet(t) \/ SaveSet(t)
        \/ ChunkHandler(t) \/ ChunkWrite(t)
        \/ FinalizeAccess(t)
        \/ AsmStart(t) \/ AsmRead0(t) \/ AsmChunk(t) \/ AsmUnlink(t)
        \/ AsmHash(t) \/ Md5Unlink(t)
        \/ DelStatus(t) \/ Cleanup(t) \/ CancelUnlink(t)
        \/ Retire(t)

\* the step only an assembly that met a duplicate takes
Dedup == \E t \in Slots : AsmDropDup(t)

OneAtATime == [inFlight |-> 1, budgeted |-> FALSE, requests |-> MaxRequests]
Overlapping == [inFlight |-> MaxInFlight, budgeted |-> TRUE, requests |-> MaxRequests]

\* one upload, its requests served one at a time
Next == Requests(OneAtATime, 1, AllInputs) \/ Steps \/ Tick

Spec == Init /\ [][Next]_vars

\* one upload, MaxRequests requests, up to MaxInFlight of them served at once
NextConc == Requests(Overlapping, 1, ValidInputs) \/ Steps \/ Tick

SpecConc == Init /\ [][NextConc]_vars

\* MaxSessions uploads of one chunk each, their requests served one at a time
NextTwo == Requests(OneAtATime, MaxSessions, SmallInputs) \/ Steps \/ Dedup \/ Tick

SpecTwo == Init /\ [][NextTwo]_vars

\* one upload, its requests served one at a time, and Redis may fail
NextFail == Requests(OneAtATime, 1, ValidInputs) \/ Steps \/ RedisError \/ Tick

SpecFail == Init /\ [][NextFail]_vars

\* the delays a caller passes, in ms
Delays == {500, 1000}

\* a call of axiosWithRetry and the outcomes of the operation it wraps
NextRetry ==
    \/ \E maxRetries \in 0..MAX_RETRIES, delay \in Delays : RetryCall(maxRetries, delay)
    \/ RetryLoop
    \/ \E value \in Values : RetryResolve(value)
    \/ \E error \in Errors : RetryCatch(error)
    \/ RetrySleep

SpecRetry == Init /\ [][NextRetry]_vars

\* the timer's pass over CHUNKS_DIR
Sweep == SweepStart \/ SweepStat \/ SweepUnlink

\* one upload, its requests served one at a time, and the timer's sweeps
NextSweep == Requests(OneAtATime, 1, ValidInputs) \/ Steps \/ Sweep \/ Tick

SpecSweep == Init /\ [][NextSweep]_vars

\* well-formed requests for uploads of one chunk, all of the same content
PairInputs ==
    [names |-> FileNames, sizes |-> {1}, types |-> FileTypes, totals |-> {1},
     indices |-> {0}, chunks |-> {"PNG"}, md5s |-> {0, Md5(<<"EXE">>)}]

OverlappingPair ==
    [inFlight |-> MaxInFlight, budgeted |-> TRUE, requests |-> MaxPairRequests]

\* MaxSessions uploads of the same content, up to MaxInFlight requests served
\* at once
NextPair == Requests(OverlappingPair, MaxSessions, PairInputs) \/ Steps \/ Dedup \/ Tick

SpecPair == Init /\ [][NextPair]_vars




-----------------------------------------------------------------------------
(* Properties *)

Done(t, op) == tasks[t].op = op /\ tasks[t].pc = "done"

\* the stored record of fileId, as getUploadStatus returns it
StoredStatus(fileId) == getUploadStatus(fileId)

\* C1. The full flow completes.  With requests served one at a time: an
\* accepted init leaves an Active record with no chunk received; an
\* acknowledged receiveChunk leaves its index recorded and its bytes in the
\* chunk store; and a finalize called on an upload with every index
\* received, every chunk stored and chunk 0 of the declared type (with no
\* md5, or the md5 of those chunks) answers 200, after which status reports
\* isCompleted = true and progress = 100.
FullFlowCompletes ==
    \A t \in Slots :
        LET task == tasks[t]
        IN  /\ (Done(t, "init") /\ task.resp.code = 201)
                => /\ Stored(task.fileId)
                   /\ LET status == StoredStatus(task.fileId)
                      IN  /\ status.receivedChunks = <<>>
                          /\ ~status.isPaused /\ ~status.isCompleted
            /\ (Done(t, "chunk") /\ task.resp.msg = "Chunk recibido")
                => /\ task.resp.code = 200
                   /\ Stored(task.fileId)
                   /\ SetHas(StoredStatus(task.fileId).receivedChunks, task.chunkIndex)
                   /\ getChunkPath(task.fileId, task.chunkIndex) \in DOMAIN chunkFiles
                   /\ chunkFiles[getChunkPath(task.fileId, task.chunkIndex)].data = task.chunk
            /\ (Done(t, "finalize") /\ task.ready /\ task.md5 \in {0, task.sum})
                => /\ task.resp.code = 200
                   /\ Stored(task.fileId)
                   /\ LET body == StatusBody(StoredStatus(task.fileId))
                      IN  /\ Has(body, "isCompleted") /\ body.isCompleted
                          /\ body.progress = 100
                          /\ body.totalUploaded = body.totalChunks

\* a finalize has succeeded on an upload of MaxChunks chunks that arrived
\* in descending order
FullFlowCompleted ==
    \E t \in Slots :
        /\ Done(t, "finalize") /\ tasks[t].ready /\ tasks[t].resp.code = 200
        /\ tasks[t].resp.msg = "File uploaded and assembled successfully."
        /\ Stored(tasks[t].fileId)
        /\ LET rc == StoredStatus(tasks[t].fileId).receivedChunks
           IN  Len(rc) = MaxChunks /\ rc[1] = MaxChunks - 1

\* the record of fileId is stored whole and is not completed
ActiveOrPaused(fileId) ==
    /\ Stored(fileId)
    /\ Has(StoredStatus(fileId), "totalChunks")
    /\ Has(StoredStatus(fileId), "isCompleted")
    /\ ~StoredStatus(fileId).isCompleted

\* the indices recorded for fileId, none if there is no record
Recorded(fileId) ==
    IF Stored(fileId) THEN Members(StoredStatus(fileId).receivedChunks) ELSE {}

\* C2. receivedChunks only grows under overlapping receiveChunk calls: the
\* save that ends an acknowledged receiveChunk on a session that is not
\* completed keeps every index recorded before it and records its own, with
\* Redis as with the in-memory table.
ChunkSaveKeepsIndices ==
    [][\A t \in Slots :
          (/\ tasks[t].op = "chunk" /\ tasks[t].pc # "done"
           /\ tasks'[t].pc = "done" /\ tasks'[t].resp.msg = "Chunk recibido"
           /\ ActiveOrPaused(tasks[t].fileId))
          => (Recorded(tasks[t].fileId) \cup {tasks[t].chunkIndex}
                 \subseteq Recorded(tasks[t].fileId)')]_vars

\* C3. cancel racing finalize: once a cancel and a finalize of the same
\* fully received session, overlapping in time, have both returned, the
\* cancel with success, the session has no status record and the artifact
\* that finalize created is not on disk, also when that finalize answered
\* with success.
CancelWinsOverFinalize ==
    \A t \in Slots, u \in Slots :
        (/\ Done(t, "cancel") /\ tasks[t].resp.code = 200
         /\ Done(u, "finalize") /\ tasks[u].ready /\ tasks[u].resp.code = 200
         /\ tasks[t].fileId = tasks[u].fileId)
        => /\ ~Stored(tasks[t].fileId)
           /\ tasks[u].filePath \notin DOMAIN completeFiles

\* C4. Overlapping finalize calls are safe: once two finalize calls of the
\* same fully received session, overlapping in time, have both returned,
\* both have answered 200 with the same URL and hash, and the session is
\* Completed with its artifact on disk.
OverlappingFinalizeSafe ==
    \A t \in Slots, u \in Slots :
        (/\ t # u
         /\ Done(t, "finalize") /\ tasks[t].ready
         /\ Done(u, "finalize") /\ tasks[u].ready
         /\ tasks[t].fileId = tasks[u].fileId)
        => /\ tasks[t].resp.code = 200 /\ tasks[u].resp.code = 200
           /\ tasks[t].resp.fileUrl = tasks[u].resp.fileUrl
           /\ tasks[t].resp.md5Hash = tasks[u].resp.md5Hash
           /\ Stored(tasks[t].fileId)
           /\ LET status == StoredStatus(tasks[t].fileId)
              IN  /\ Has(status, "isCompleted") /\ status.isCompleted
                  /\ Has(status, "filePath")
                  /\ status.filePath \in DOMAIN completeFiles

\* the chunk files of fileId in the chunk store
ChunkFilesOf(fileId) == {p \in DOMAIN chunkFiles : p[1] = fileId}

\* C5. cancel cleans up: when a cancel has returned with success, the
\* session has no status record and the chunk store holds no chunk file of
\* the session, whatever the age of its chunks.
CancelCleansUp ==
    \A t \in Slots :
        (Done(t, "cancel") /\ tasks[t].resp.code = 200)
        => /\ ~Stored(tasks[t].fileId)
           /\ ChunkFilesOf(tasks[t].fileId) = {}

\* what is stored for fileId: its status record and its chunk files
StateOf(fileId) ==
    [redis |-> IF fileId \in DOMAIN redisStore THEN <<redisStore[fileId]>> ELSE <<>>,
     memory |-> IF fileId \in DOMAIN memoryUploadStatus
                THEN <<memoryUploadStatus[fileId]>> ELSE <<>>,
     chunks |-> [p \in ChunkFilesOf(fileId) |-> chunkFiles[p]]]

\* C6. Sessions are independent: a step of a request on one session (init,
\* receiveChunk, pause, resume, finalize or cancel, a failing finalize
\* included) changes neither the status record nor the chunk files of any
\* other session.
OtherSessionsUntouched ==
    [][\A t \in Slots, other \in FileIds :
          (tasks'[t] # tasks[t] /\ tasks'[t].fileId # other)
          => StateOf(other)' = StateOf(other)]_vars

RECURSIVE Without(_, _)
\* the sequence arr without the members of the set gone
Without(arr, gone) ==
    IF arr = <<>> THEN <<>>
    ELSE IF arr[1] \in gone THEN Without(Tail(arr), gone)
    ELSE <<arr[1]>> \o Without(Tail(arr), gone)

\* the indices 0..total-1 that are not in received, ascending
MissingIndices(total, received) ==
    Without([k \in 1..total |-> k - 1], received)

\* C7. An incomplete finalize names the missing indices: when finalize
\* answers that not all chunks have been uploaded, the list of indices in its
\* payload is exactly {0..totalChunks-1} minus receivedChunks, ascending.
IncompleteListsMissing ==
    \A t \in Slots :
        (/\ Done(t, "finalize")
         /\ tasks[t].resp.msg = "Not all chunks have been uploaded."
         /\ ActiveOrPaused(tasks[t].fileId))
        => LET status == StoredStatus(tasks[t].fileId)
           IN  tasks[t].resp.receivedChunks =
                   MissingIndices(status.totalChunks, Members(status.receivedChunks))

\* the URL and hash of the artifact recorded for fileId, if it is Completed
RecordedResult(fileId) ==
    IF Stored(fileId) /\ Has(StoredStatus(fileId), "isCompleted")
       /\ StoredStatus(fileId).isCompleted /\ Has(StoredStatus(fileId), "filePath")
    THEN <<[fileUrl |-> <<Seg("http://localhost:3001")>>
                           \o RelativeUrl(StoredStatus(fileId).filePath),
            md5Hash |-> StoredStatus(fileId).md5Hash]>>
    ELSE <<>>

\* C8. finalize is idempotent on a Completed session.  With requests served
\* one at a time: the first successful finalize answers with the URL and
\* hash of the artifact it records; while the record stays, they do not
\* change; and a finalize on the Completed session whose artifact is on disk
\* answers 200 with the same URL and hash, and none of its steps changes the
\* status store, the chunk store, the artifacts or the dedup index.
RefinalizeReturnsSame ==
    [][/\ \A t \in Slots :
            LET fileId == tasks[t].fileId
                returns(msg) == /\ tasks'[t].op = "finalize" /\ tasks[t].pc # "done"
                                /\ tasks'[t].pc = "done" /\ tasks'[t].resp.msg = msg
                answer == [k \in {"fileUrl", "md5Hash"} |-> tasks'[t].resp[k]]
            IN  /\ returns("File uploaded and assembled successfully.")
                    => RecordedResult(fileId)' = <<answer>>
                /\ (tasks'[t].op = "finalize" /\ tasks'[t].pc = "access")
                    => world' = world
                /\ returns("Upload already completed.")
                    => /\ tasks'[t].resp.code = 200
                       /\ RecordedResult(fileId) = <<answer>>
                       /\ StoredStatus(fileId).filePath \in DOMAIN completeFiles
                       /\ world' = world
       /\ \A fileId \in FileIds :
            (RecordedResult(fileId) # <<>> /\ Stored(fileId)')
            => RecordedResult(fileId)' = RecordedResult(fileId)]_vars

\* a finalize on a Completed session has answered from the record
RefinalizedCompleted ==
    \E t \in Slots :
        /\ Done(t, "finalize") /\ tasks[t].resp.code = 200
        /\ tasks[t].resp.msg = "Upload already completed."
        /\ RecordedResult(tasks[t].fileId) # <<>>

\* C9. Chunk 0 is type-checked on arrival: a receiveChunk for index 0 whose
\* bytes do not pass validateFileType for the declared type of the session
\* is not acknowledged, and its bytes are not in the chunk store.
MismatchedFirstChunkRejected ==
    \A t \in Slots :
        (/\ Done(t, "chunk") /\ tasks[t].chunkIndex = 0 /\ tasks[t].chunk # ""
         /\ ActiveOrPaused(tasks[t].fileId)
         /\ ~validateFileType(tasks[t].chunk, StoredStatus(tasks[t].fileId).fileType))
        => /\ tasks[t].resp.msg # "Chunk recibido"
           /\ getChunkPath(tasks[t].fileId, 0) \notin DOMAIN chunkFiles

\* the handler of a receiveChunk that carries bytes for an index which is in
\* the receivedChunks of the status it was given is about to run in slot t
DuplicateChunkAt(t) ==
    /\ tasks[t].op = "chunk" /\ tasks[t].pc = "handler" /\ tasks[t].chunk # ""
    /\ tasks[t].chunkIndex \in Members(tasks[t].status.receivedChunks)

\* C10, as stated. receiveChunk is idempotent per index: a receiveChunk with an
\* index that is already in receivedChunks returns success and changes
\* neither the chunk store nor receivedChunks.
DuplicateChunkSucceeds ==
    [][\A t \in Slots :
          (DuplicateChunkAt(t) /\ tasks'[t] # tasks[t])
          => /\ tasks'[t].pc = "done" /\ tasks'[t].resp.code = 200
             /\ world' = world]_vars

\* C10, amended. A receiveChunk with an index that is already in
\* receivedChunks changes neither the chunk store nor receivedChunks; it
\* returns success (200) unless the session is Paused, and is rejected with
\* Conflict (409) if it is.
DuplicateChunkIsNoOp ==
    [][\A t \in Slots :
          (DuplicateChunkAt(t) /\ tasks'[t] # tasks[t])
          => /\ tasks'[t].pc = "done"
             /\ tasks'[t].resp.code =
                    IF tasks[t].status.isPaused /\ ~tasks[t].status.isCompleted
                    THEN 409 ELSE 200
             /\ world' = world]_vars

\* a receiveChunk has been answered as a duplicate
DuplicateChunkAnswered ==
    \E t \in Slots :
        /\ Done(t, "chunk") /\ tasks[t].resp.msg = "Chunk ya recibido"
        /\ tasks[t].chunkIndex \in Recorded(tasks[t].fileId)
        /\ getChunkPath(tasks[t].fileId, tasks[t].chunkIndex) \in DOMAIN chunkFiles

\* the handler of a receiveChunk that carries bytes for an index within
\* [0, totalChunks) is about to run in slot t
WellFormedChunkAt(t) ==
    /\ tasks[t].op = "chunk" /\ tasks[t].pc = "handler" /\ tasks[t].chunk # ""
    /\ Has(tasks[t].status, "totalChunks")
    /\ tasks[t].chunkIndex \in 0..(tasks[t].status.totalChunks - 1)

\* C11. receiveChunk on a Completed session is rejected with an InvalidState
\* error, not acknowledged as a success, and changes neither the chunk store
\* nor the status record.
CompletedChunkRejected ==
    [][\A t \in Slots :
          (/\ WellFormedChunkAt(t) /\ tasks[t].status.isCompleted
           /\ tasks'[t] # tasks[t])
          => /\ tasks'[t].pc = "done" /\ tasks'[t].resp.code >= 400
             /\ world' = world]_vars

\* the record of fileId is stored, paused and not completed
Paused(fileId) ==
    /\ ActiveOrPaused(fileId)
    /\ StoredStatus(fileId).isPaused

\* C12. receiveChunk on a Paused session is rejected with Conflict and has
\* no side effect.  With requests served one at a time: the handler of a
\* well-formed receiveChunk on a Paused session answers 409 and changes
\* neither the status store nor the chunk store, and while a session stays
\* Paused its receivedChunks does not change and no chunk file of it is
\* written.
PausedChunkRejected ==
    [][/\ \A t \in Slots :
            (/\ WellFormedChunkAt(t)
             /\ tasks[t].status.isPaused /\ ~tasks[t].status.isCompleted
             /\ tasks'[t] # tasks[t])
            => /\ tasks'[t].pc = "done" /\ tasks'[t].resp.code = 409
               /\ world' = world
       /\ \A fileId \in FileIds :
            (Paused(fileId) /\ Paused(fileId)')
            => /\ Recorded(fileId)' = Recorded(fileId)
               /\ \A p \in ChunkFilesOf(fileId)' :
                     p \in ChunkFilesOf(fileId) /\ chunkFiles'[p] = chunkFiles[p]]_vars

\* a receiveChunk with bytes for an index not yet received has been refused
\* on a Paused session that holds a chunk already
PausedChunkRefused ==
    \E t \in Slots :
        /\ Done(t, "chunk") /\ tasks[t].resp.code = 409
        /\ Paused(tasks[t].fileId)
        /\ Recorded(tasks[t].fileId) # {}
        /\ tasks[t].chunkIndex \in
               (0..(StoredStatus(tasks[t].fileId).totalChunks - 1))
                   \ Recorded(tasks[t].fileId)
        /\ getChunkPath(tasks[t].fileId, tasks[t].chunkIndex) \notin DOMAIN chunkFiles

\* C13. The indices stay within [0, totalChunks): the handler of a
\* receiveChunk with bytes for an index outside [0, totalChunks) answers 400
\* and changes neither the status store nor the chunk store, and in every
\* reachable state the receivedChunks of each stored session is a subset of
\* {0, ..., totalChunks-1}.
IndexWithinTotal ==
    /\ [](\A fileId \in FileIds :
            (Stored(fileId) /\ Has(StoredStatus(fileId), "totalChunks"))
            => Recorded(fileId) \subseteq 0..(StoredStatus(fileId).totalChunks - 1))
    /\ [][\A t \in Slots :
            (/\ tasks[t].op = "chunk" /\ tasks[t].pc = "handler" /\ tasks[t].chunk # ""
             /\ Has(tasks[t].status, "totalChunks")
             /\ tasks[t].chunkIndex \notin 0..(tasks[t].status.totalChunks - 1)
             /\ tasks'[t] # tasks[t])
            => /\ tasks'[t].pc = "done" /\ tasks'[t].resp.code = 400
               /\ world' = world]_vars

\* a receiveChunk for the index totalChunks has been refused on a session
\* that holds a chunk, and no file was written for it
PastEndChunkRefused ==
    \E t \in Slots :
        /\ Done(t, "chunk") /\ tasks[t].resp.msg = "Indice de chunk invalido"
        /\ ActiveOrPaused(tasks[t].fileId)
        /\ tasks[t].chunkIndex = StoredStatus(tasks[t].fileId).totalChunks
        /\ Recorded(tasks[t].fileId) # {}
        /\ getChunkPath(tasks[t].fileId, tasks[t].chunkIndex) \notin DOMAIN chunkFiles

\* C14. A Completed session is whole: in every reachable state, a stored
\* session whose isCompleted is true has receivedChunks.size = totalChunks
\* and has a final artifact path and a content hash.
CompletedIsWhole ==
    \A fileId \in FileIds :
        (/\ Stored(fileId)
         /\ Has(StoredStatus(fileId), "isCompleted")
         /\ StoredStatus(fileId).isCompleted)
        => LET status == StoredStatus(fileId)
           IN  /\ Has(status, "totalChunks")
               /\ Len(status.receivedChunks) = status.totalChunks
               /\ Has(status, "filePath") /\ status.filePath # NoPath
               /\ Has(status, "md5Hash")

\* the finalize in slot t has answered that the file was assembled
Assembled(t) ==
    /\ Done(t, "finalize")
    /\ tasks[t].resp.msg = "File uploaded and assembled successfully."

\* the sessions that are stored as Completed with a content hash
CompletedIds ==
    {fileId \in FileIds :
        /\ Stored(fileId)
        /\ Has(StoredStatus(fileId), "isCompleted") /\ StoredStatus(fileId).isCompleted
        /\ Has(StoredStatus(fileId), "md5Hash") /\ Has(StoredStatus(fileId), "filePath")}

\* C15. Dedup.  With requests served one at a time: an assembly reports
\* isDuplicate = true exactly when the hash of its bytes was registered
\* before; the first assembly of some bytes reports its own new file and
\* registers hash -> path; a later assembly of the same bytes discards its
\* newly written file and reports the registered path; and two distinct
\* Completed sessions with the same contentHash have the same final path.
DedupSharesArtifact ==
    /\ [](/\ \A t \in Slots :
                Assembled(t) =>
                    LET result == tasks[t].result
                    IN  /\ tasks[t].ready => result.hash = tasks[t].sum
                        /\ result.hash \in DOMAIN fileHashMap
                        /\ fileHashMap[result.hash] = result.path
                        /\ ~result.isDuplicate => result.path = tasks[t].filePath
                        /\ result.isDuplicate =>
                              tasks[t].filePath \notin DOMAIN completeFiles
                        /\ StoredStatus(tasks[t].fileId).filePath = result.path
                        /\ StoredStatus(tasks[t].fileId).md5Hash = result.hash
          /\ \A a \in CompletedIds, b \in CompletedIds :
                StoredStatus(a).md5Hash = StoredStatus(b).md5Hash
                    => StoredStatus(a).filePath = StoredStatus(b).filePath)
    /\ [][\A t \in Slots :
            (tasks[t].pc = "asmHash" /\ tasks'[t].result # NoResult)
            => (tasks'[t].result.isDuplicate
                    <=> tasks'[t].result.hash \in DOMAIN fileHashMap)]_vars

\* the second of two sessions with the same bytes has been assembled as a
\* duplicate: its own file is gone and both records name the first artifact,
\* which is on disk
DedupFoundDuplicate ==
    \E t \in Slots :
        /\ Assembled(t) /\ tasks[t].result.isDuplicate
        /\ tasks[t].result.path # tasks[t].filePath
        /\ tasks[t].result.path \in DOMAIN completeFiles
        /\ \E a \in CompletedIds :
              /\ a # tasks[t].fileId
              /\ tasks[t].fileId \in CompletedIds
              /\ StoredStatus(a).filePath = tasks[t].result.path
              /\ StoredStatus(a).md5Hash = tasks[t].result.hash

\* the record of fileId is stored with isCompleted = true
Completed(fileId) ==
    /\ Stored(fileId)
    /\ Has(StoredStatus(fileId), "isCompleted")
    /\ StoredStatus(fileId).isCompleted

\* the record of fileId as the store holds it
RecordOf(fileId) ==
    IF redisClient THEN redisStore[fileId]
    ELSE [k \in (DOMAIN memoryUploadStatus[fileId]) \ {"oid", "rcRef"} |->
             memoryUploadStatus[fileId][k]]

\* C16. Completed is terminal: no step takes the record of a Completed
\* session back to isCompleted = false; the steps of pause, resume and
\* receiveChunk leave the record as it is; and the record of a Completed
\* session is removed by the steps of cancel only.
CompletedIsTerminal ==
    [][\A fileId \in FileIds :
          Completed(fileId) =>
              /\ Stored(fileId)' => Completed(fileId)'
              /\ (\E t \in Slots : /\ tasks'[t] # tasks[t]
                                   /\ tasks'[t].op \in {"pause", "resume", "chunk"})
                    => (Stored(fileId)' /\ RecordOf(fileId)' = RecordOf(fileId))
              /\ ~Stored(fileId)'
                    => \E t \in Slots : /\ tasks'[t] # tasks[t]
                                        /\ tasks'[t].op = "cancel"
                                        /\ tasks'[t].fileId = fileId]_vars

\* the fields that the partial save of a handler names
NamedBy(op) ==
    CASE op = "chunk" -> {"receivedChunks"}
      [] op \in {"pause", "resume"} -> {"isPaused"}
      [] OTHER -> {"isCompleted", "filePath", "md5Hash"}

\* C17. Partial saves preserve what they do not name: a step of
\* receiveChunk, pause, resume or finalize that changes the stored record of
\* its session leaves every field of the record that its save does not name
\* as it was in the store; so pause followed by resume leaves receivedChunks
\* exactly as it was.
SavePreservesFields ==
    [][\A t \in Slots, fileId \in FileIds :
          (/\ tasks'[t].pc # tasks[t].pc
           /\ tasks'[t].op \in {"chunk", "pause", "resume", "finalize"}
           /\ tasks'[t].fileId = fileId
           /\ Stored(fileId) /\ Stored(fileId)'
           /\ RecordOf(fileId)' # RecordOf(fileId))
          => \A k \in (DOMAIN RecordOf(fileId)) \ NamedBy(tasks'[t].op) :
                /\ k \in DOMAIN RecordOf(fileId)'
                /\ RecordOf(fileId)'[k] = RecordOf(fileId)[k]]_vars

\* the record of fileId is stored, not completed and not paused
Active(fileId) ==
    /\ ActiveOrPaused(fileId)
    /\ ~StoredStatus(fileId).isPaused

\* the request in slot t, a call of op on fileId, returns in this step
Returns(t, op, fileId) ==
    /\ tasks[t].pc # "done" /\ tasks'[t].pc = "done"
    /\ tasks'[t].op = op /\ tasks'[t].fileId = fileId

\* the record of fileId without its isPaused
Unpaused(fileId) ==
    [k \in (DOMAIN RecordOf(fileId)) \ {"isPaused"} |-> RecordOf(fileId)[k]]

\* C18. pause and resume.  With requests served one at a time: pause
\* returns 200 on an Active session, which is Paused from then on, and
\* resume returns 200 on a Paused session, which is Active from then on,
\* the rest of the record staying as it was; pause on a Paused session and
\* resume on an Active one return 200 and change nothing; both return 400
\* on a Completed session and 404 on an unknown one, changing nothing.
PauseResumeTransitions ==
    [][\A t \in Slots, fileId \in FileIds, op \in {"pause", "resume"} :
          Returns(t, op, fileId) =>
              LET code == tasks'[t].resp.code
                  turns == IF op = "pause" THEN Active(fileId) ELSE Paused(fileId)
                  turned == IF op = "pause" THEN Paused(fileId)' ELSE Active(fileId)'
              IN  IF ~Stored(fileId) THEN code = 404 /\ world' = world
                  ELSE IF Completed(fileId) THEN code = 400 /\ world' = world
                  ELSE IF turns
                  THEN /\ code = 200 /\ turned
                       /\ Unpaused(fileId)' = Unpaused(fileId)
                       /\ chunkFiles' = chunkFiles /\ completeFiles' = completeFiles
                  ELSE code = 200 /\ world' = world]_vars

\* a session holding a chunk has been paused and then resumed
PausedThenResumed ==
    \E t \in Slots :
        /\ Done(t, "resume") /\ tasks[t].resp.msg = "Upload resumed successfully."
        /\ Active(tasks[t].fileId)
        /\ Recorded(tasks[t].fileId) # {}

\* C19. resume returns receivedChunks: every resume that returns 200, the
\* resume of a session that is not paused included, carries the
\* receivedChunks of the session as stored.
ResumeCarriesChunks ==
    \A t \in Slots :
        (Done(t, "resume") /\ tasks[t].resp.code = 200 /\ Stored(tasks[t].fileId))
        => /\ Has(tasks[t].resp, "receivedChunks")
           /\ Members(tasks[t].resp.receivedChunks) = Recorded(tasks[t].fileId)

\* fileId was issued, its record is gone and nothing was ever assembled:
\* with one session and requests served one at a time, it is a cancel that
\* removed the record (a finalize that removes it leaves a file or a hash)
CancelledBefore(fileId) ==
    /\ fileId <= nextFileId /\ ~Stored(fileId)
    /\ completeFiles = NoFiles /\ fileHashMap = NoFiles

\* C20. cancel is idempotent: a second cancel of a session id, issued after
\* the first has returned, is not answered with an error and leaves the
\* stores exactly as the first cancel left them.
CancelIsIdempotent ==
    [][\A t \in Slots, fileId \in FileIds :
          (/\ tasks[t].pc = "idle" /\ tasks'[t].op = "cancel"
           /\ tasks'[t].fileId = fileId /\ CancelledBefore(fileId))
          => /\ tasks'[t].pc = "done" /\ tasks'[t].resp.code < 400
             /\ world' = world]_vars

\* C21. init validates its input: an init that is rejected creates no
\* status record and changes nothing, and every record that an accepted
\* init has created is Active with totalChunks >= 1, empty receivedChunks,
\* isPaused = false and isCompleted = false, so that an init with
\* totalChunks < 1 is rejected.
InitValidates ==
    [][\A t \in Slots :
          (tasks[t].pc # "done" /\ tasks'[t].pc = "done" /\ tasks'[t].op = "init")
          => IF tasks'[t].resp.code = 201
             THEN /\ tasks'[t].fileId \in DOMAIN (IF redisClient THEN redisStore'
                                                  ELSE memoryUploadStatus')
                  /\ LET status == (IF redisClient THEN redisStore'
                                    ELSE memoryUploadStatus')[tasks'[t].fileId]
                     IN  /\ status.totalChunks >= 1
                         /\ Len(status.receivedChunks) = 0
                         /\ ~status.isPaused /\ ~status.isCompleted
             ELSE tasks'[t].resp.code = 400 /\ world' = world]_vars

\* C22. A cache failure is tolerated: no init, receiveChunk, pause, resume,
\* finalize or cancel fails because a call of the Redis client failed; a
\* request that is awaiting the cache when it fails is neither answered
\* with a server error nor taken into the error handling of finalize.
CacheFailureTolerated ==
    [][\A t \in Slots :
          (/\ tasks[t].pc \in {"saveGet", "saveSet", "delStatus"}
           /\ tasks'[t].pc # tasks[t].pc)
          => /\ ~(tasks'[t].pc = "done" /\ tasks'[t].resp.code >= 500
                  /\ tasks[t].outcome # "error")
             /\ tasks'[t].outcome = tasks[t].outcome]_vars

\* C23. totalChunks is fixed at init: whenever a status record is stored
\* for a session id it has a totalChunks, a fileName and a fileType, and no
\* step changes them while the record is stored, under any interleaving of
\* the requests.
TotalChunksFixed ==
    [][\A fileId \in FileIds :
          Stored(fileId)' =>
              \A k \in {"totalChunks", "fileName", "fileType"} :
                  /\ k \in DOMAIN RecordOf(fileId)'
                  /\ (Stored(fileId) /\ k \in DOMAIN RecordOf(fileId))
                        => RecordOf(fileId)'[k] = RecordOf(fileId)[k]]_vars

\* the finalize in slot t was given an md5 that is not the hash of the file
\* it assembled, and has returned
MismatchReturned(t) ==
    /\ Done(t, "finalize") /\ tasks[t].result # NoResult
    /\ tasks[t].md5 # 0 /\ tasks[t].md5 # tasks[t].result.hash

\* C24. A hash mismatch is reported in full: a finalize whose expected hash
\* differs from the hash of the assembled file fails with an integrity
\* error whose payload carries both the expected and the computed hash, and
\* the session is not Completed.
MismatchReportsHashes ==
    \A t \in Slots :
        MismatchReturned(t) =>
            LET resp == tasks[t].resp
                payload == (DOMAIN resp) \ {"code", "msg"}
            IN  /\ resp.code >= 400
                /\ \E k \in payload : resp[k] = tasks[t].md5
                /\ \E k \in payload : resp[k] = tasks[t].result.hash
                /\ ~Completed(tasks[t].fileId)

\* what the claim says of a call whatever its errors are: never more than
\* maxRetries invocations, a returned value is the one of the first
\* invocation that resolved, and a rejection comes after exactly maxRetries
\* invocations
RetryBoundedFor(rejectedEarly) ==
    /\ retry.calls <= retry.maxRetries
    /\ retry.pc = "returned" =>
        /\ retry.value \in Values
        /\ retry.calls = retry.attempt + 1
    /\ retry.pc = "sleep" => retry.attempt < retry.maxRetries
    /\ retry.pc = "rejected" =>
        /\ retry.error = retry.lastError
        /\ \/ retry.calls = retry.maxRetries
           \/ rejectedEarly

\* C25. The retry helper is bounded: the wrapped operation is invoked again
\* after each failure, the first value it resolves with is returned with no
\* further invocation, and the helper rejects only after maxRetries
\* failures, having invoked the operation exactly maxRetries times.
RetryBounded == RetryBoundedFor(FALSE)

\* C25, amended: as above, except that a failure which is an HTTP 500
\* whose message includes "Field value too long" is not retried: the helper
\* rejects with it at once, after at most maxRetries invocations.
RetryBoundedUnlessTooLong ==
    /\ [](RetryBoundedFor(NotRetried(retry.error) /\ retry.calls >= 1))
    /\ [][/\ retry.pc \in {"returned", "rejected"} => retry' = retry
          /\ retry'.calls # retry.calls =>
                /\ retry'.calls = retry.calls + 1
                /\ retry.pc = "loop"
                /\ retry.calls = 0 \/ ~NotRetried(retry.lastError)]_vars

\* every invocation failed with an error that is retried, MAX_RETRIES times
RetriesExhausted ==
    /\ retry.pc = "rejected"
    /\ retry.maxRetries = MAX_RETRIES
    /\ retry.calls = MAX_RETRIES
    /\ ~NotRetried(retry.error)

\* the step in which the finalize in slot t, whose assembleFile threw, answers
AbortAnswered(t) ==
    /\ tasks[t].op = "finalize" /\ tasks[t].pc # "done"
    /\ tasks[t].outcome = "error" /\ tasks[t].filePath # NoPath
    /\ tasks'[t].pc = "done"

\* C26. An aborted assembly leaves no artifact.  When assembleFile throws (a
\* chunk missing, chunk 0 failing the type check, a file operation failing),
\* the file it opened for the artifact does not exist once finalize has
\* answered.
AbortLeavesNoArtifact ==
    [][\A t \in Slots :
          AbortAnswered(t) => tasks[t].filePath \notin DOMAIN completeFiles']_vars

\* C27. Stored paths name files that exist.  In every state, each path in
\* fileHashMap and the filePath of each Completed session is that of a file
\* in COMPLETE_DIR.
StoredPathsExist ==
    /\ \A hash \in DOMAIN fileHashMap : fileHashMap[hash] \in DOMAIN completeFiles
    /\ \A fileId \in FileIds :
          Completed(fileId) => RecordOf(fileId).filePath \in DOMAIN completeFiles

\* no finalize is at work on fileId
NotAssembling(fileId) ==
    \A t \in Slots :
        ~(tasks[t].op = "finalize" /\ tasks[t].fileId = fileId
          /\ tasks[t].pc \notin {"idle", "done"})

\* C28. Received chunks stay.  For every stored session that is not
\* Completed and that no finalize is assembling, each index in its
\* receivedChunks has its chunk file in CHUNKS_DIR, whatever the sweeps and
\* the requests on other sessions did.
ReceivedChunksKept ==
    \A fileId \in FileIds :
        (/\ Stored(fileId) /\ ~Completed(fileId) /\ NotAssembling(fileId)
         /\ Has(RecordOf(fileId), "receivedChunks"))
        => LET received == RecordOf(fileId).receivedChunks
           IN  \A k \in 1..Len(received) :
                  getChunkPath(fileId, received[k]) \in DOMAIN chunkFiles

\* a cancel of fileId has deleted the status record
CancelDeleted(fileId) ==
    \E c \in Slots :
        /\ tasks[c].op = "cancel" /\ tasks[c].fileId = fileId
        /\ \/ tasks[c].pc \in {"cleanup", "cancelUnlink"}
           \/ tasks[c].pc = "done" /\ tasks[c].resp.code = 200

\* C29. A cancelled session stays cancelled.  Once a cancel has deleted the
\* record of a session and the record is gone, no step of a receiveChunk,
\* pause or resume that was in flight for it stores a record for the id
\* again or adds a chunk file for it.
CancelStaysDeleted ==
    [][\A t \in Slots, fileId \in FileIds :
          (/\ tasks[t].op \in {"chunk", "pause", "resume"}
           /\ tasks[t].fileId = fileId /\ tasks'[t].pc # tasks[t].pc
           /\ CancelDeleted(fileId) /\ ~Stored(fileId))
          => /\ ~Stored(fileId)'
             /\ ChunkFilesOf(fileId)' \subseteq ChunkFilesOf(fileId)]_vars

\* the finalize in slot t has answered that the assembly or the hash check
\* failed
FinalizeFailed(t) ==
    /\ Done(t, "finalize")
    /\ tasks[t].resp.msg \in {"Failed to assemble file.",
                              "File integrity check failed (MD5 mismatch)."}

\* what a failed finalize leaves behind: a file that assembleFile opened and
\* did not register in fileHashMap (the assembly threw), or a hash whose
\* file was unlinked (the hash check failed)
FailureLeftovers ==
    \/ \E q \in DOMAIN completeFiles :
          \A hash \in DOMAIN fileHashMap : fileHashMap[hash] # q
    \/ \E hash \in DOMAIN fileHashMap : fileHashMap[hash] \notin DOMAIN completeFiles

\* fileId was issued, its record is gone, and a finalize failed
FailedBefore(fileId) ==
    /\ fileId <= nextFileId /\ ~Stored(fileId)
    /\ FailureLeftovers

\* C30. A failed finalize deletes the session.  With requests served one at
\* a time: when finalize answers that the assembly failed or that the hash
\* does not match, the status record of the session is already deleted;
\* nothing brings it back; and every request for that id made after that
\* answer (status, receiveChunk, finalize, pause, resume or cancel) is
\* answered 404 at once.
FailedFinalizeDeletes ==
    [][\A t \in Slots, fileId \in FileIds :
          /\ (tasks[t].pc # "done" /\ FinalizeFailed(t)' /\ tasks[t].fileId = fileId)
             => /\ tasks'[t].resp.code >= 400
                /\ FailedBefore(fileId)'
          /\ FailedBefore(fileId) => FailedBefore(fileId)'
          /\ (/\ FailedBefore(fileId)
              /\ tasks[t].pc = "idle" /\ tasks'[t].pc # "idle"
              /\ tasks'[t].fileId = fileId)
             => /\ tasks'[t].pc = "done"
                /\ tasks'[t].resp.code = 404]_vars

\* an assembly threw, its finalize failed, and the receiveChunk that came
\* next was answered 404
FailedThenNotFound ==
    \E t \in Slots :
        /\ Done(t, "chunk") /\ tasks[t].resp.code = 404
        /\ FailedBefore(tasks[t].fileId)
        /\ \E q \in DOMAIN completeFiles :
              \A hash \in DOMAIN fileHashMap : fileHashMap[hash] # q

\* C31. Assembly is in index order.  With requests served one at a time:
\* the k-th chunk appended to the artifact is the chunk file of index k - 1,
\* whatever order the chunks arrived in, and the hash is computed when the
\* artifact holds all totalChunks chunks, over exactly those.
AssemblyInOrder ==
    [][\A t \in Slots :
          LET task == tasks[t]
              filePath == task.filePath
          IN  /\ (task.pc = "asmChunk" /\ tasks'[t].pc = "asmUnlink")
                 => LET chunkPath == getChunkPath(task.fileId, Len(completeFiles[filePath]))
                    IN  /\ chunkPath \in DOMAIN chunkFiles
                        /\ completeFiles'[filePath] =
                              Append(completeFiles[filePath], chunkFiles[chunkPath].data)
              /\ (task.pc = "asmHash" /\ tasks'[t].result # NoResult)
                 => /\ Len(completeFiles[filePath]) = task.status.totalChunks
                    /\ tasks'[t].result.hash = Md5(completeFiles[filePath])]_vars

\* chunk 1 arrived before chunk 0, and the artifact has chunk 0 first
OutOfOrderAssembled ==
    \E t \in Slots :
        /\ Assembled(t) /\ Stored(tasks[t].fileId)
        /\ RecordOf(tasks[t].fileId).receivedChunks = <<1, 0>>
        /\ tasks[t].result.path \in DOMAIN completeFiles
        /\ completeFiles[tasks[t].result.path] = <<"PNG", "EXE">>

\* no receiveChunk is at work on fileId
NoChunkInFlight(fileId) ==
    \A u \in Slots :
        ~(tasks[u].op = "chunk" /\ tasks[u].fileId = fileId
          /\ tasks[u].pc \notin {"idle", "done"})

\* C32. Chunks are deleted as they are consumed.  A chunk file is unlinked
\* in the step after it was appended.  Where no receiveChunk of the session
\* is still writing: when finalize answers that the file was assembled no
\* chunk file of the session remains, and when the loop of assembleFile
\* finds index i missing, the chunk files below i are gone.  The throw
\* touches no chunk file, so those above i stay as they are.
ConsumedChunksDeleted ==
    [][\A t \in Slots :
          LET task == tasks[t]
              chunkPath == getChunkPath(task.fileId, task.i)
          IN  /\ (task.pc = "asmUnlink" /\ tasks'[t].pc \in {"asmChunk", "asmHash"})
                 => /\ chunkPath \in DOMAIN chunkFiles
                    /\ chunkFiles' = Unlink(chunkFiles, chunkPath)
              /\ (task.pc # "done" /\ Assembled(t)' /\ task.result = NoResult
                  /\ NoChunkInFlight(task.fileId))
                 => ChunkFilesOf(task.fileId)' = {}
              /\ (task.pc = "asmChunk" /\ tasks'[t].outcome = "error")
                 => /\ NoChunkInFlight(task.fileId) =>
                          \A j \in 0..(task.i - 1) :
                             getChunkPath(task.fileId, j) \notin DOMAIN chunkFiles'
                    /\ chunkFiles' = chunkFiles]_vars

\* the loop of assembleFile found chunk 1 missing after it consumed chunk 0
AbortedAtSecondChunk ==
    \E t \in Slots :
        /\ tasks[t].op = "finalize" /\ tasks[t].outcome = "error"
        /\ tasks[t].i = 1 /\ tasks[t].filePath \in DOMAIN completeFiles
        /\ Len(completeFiles[tasks[t].filePath]) = 1
        /\ NoChunkInFlight(tasks[t].fileId)

\* the finalize in slot t was called on a Completed session whose file is gone
Refinalizing(t) ==
    /\ tasks[t].op = "finalize" /\ tasks[t].pc \notin {"idle", "done"}
    /\ Has(tasks[t].status, "isCompleted") /\ tasks[t].status.isCompleted
    /\ Has(tasks[t].status, "filePath")
    /\ tasks[t].status.filePath \notin DOMAIN completeFiles

Hashed(t) == tasks[t].result = NoResult /\ tasks'[t].result # NoResult

\* C34. The duplicate lookup and the registration are one step.  Whatever
\* the interleaving of the assemblies: an assembly reports isDuplicate =
\* false exactly when its hash is not in fileHashMap, and the hash is in the
\* map from that same step on, with its path never replaced; so of the
\* assemblies that are in their slots with the same hash at most one has
\* isDuplicate = false.
DedupLookupAtomic ==
    /\ [][\A t \in Slots :
             /\ Hashed(t) =>
                   LET result == tasks'[t].result
                   IN  /\ result.isDuplicate <=> result.hash \in DOMAIN fileHashMap
                       /\ result.hash \in DOMAIN fileHashMap'
                       /\ fileHashMap'[result.hash] = result.path
             /\ \A hash \in DOMAIN fileHashMap :
                   /\ hash \in DOMAIN fileHashMap'
                   /\ fileHashMap'[hash] = fileHashMap[hash]]_vars
    /\ [](\A t \in Slots, u \in Slots :
             (/\ t # u /\ tasks[t].result # NoResult /\ tasks[u].result # NoResult
              /\ tasks[t].result.hash = tasks[u].result.hash)
             => tasks[t].result.isDuplicate \/ tasks[u].result.isDuplicate)

\* two assemblies of the same content overlapped; one registered the hash
\* and the other found it
OverlappingDuplicate ==
    \E t \in Slots, u \in Slots :
        /\ Done(t, "finalize") /\ tasks[t].result # NoResult
        /\ ~tasks[t].result.isDuplicate
        /\ tasks[u].op = "finalize" /\ tasks[u].pc = "asmDropDup"
        /\ tasks[u].fileId # tasks[t].fileId
        /\ tasks[u].result.hash = tasks[t].result.hash

\* assembleFile in slot t has opened its file and not yet returned
Writing(t) ==
    /\ tasks[t].op = "finalize"
    /\ tasks[t].pc \in {"asmRead0", "asmChunk", "asmUnlink", "asmHash"}

\* C35. Artifact paths are unique.  No two assemblies that are under way
\* have the same file open, whether they are of one session or of two with
\* the same fileName.
ArtifactPathsUnique ==
    \A t \in Slots, u \in Slots :
        (t # u /\ Writing(t) /\ Writing(u)) => tasks[t].filePath # tasks[u].filePath

\* C36. Paused and Completed exclude each other: no stored record has
\* isPaused and isCompleted both true.
PausedExcludesCompleted ==
    \A fileId \in FileIds :
        Stored(fileId) =>
            LET status == RecordOf(fileId)
            IN  ~(/\ Has(status, "isPaused") /\ status.isPaused
                  /\ Has(status, "isCompleted") /\ status.isCompleted)

\* C37. The dedup index maps hashes to whole files.  While no assembly has
\* a file open, every path in fileHashMap whose file exists is that of a
\* file with the hash it is filed under: an assembly that aborted has left
\* no partly written file where findDuplicateFile finds it.
IndexMapsWholeFiles ==
    (\A t \in Slots : ~Writing(t))
    => \A hash \in DOMAIN fileHashMap :
          fileHashMap[hash] \in DOMAIN completeFiles
          => Md5(completeFiles[fileHashMap[hash]]) = hash

\* C38. A sweep is best-effort: a file whose stat or unlink fails is
\* skipped and the pass goes on, so a pass of cleanupOldChunks does not end
\* while a file of its listing is still to be examined.
SweepExaminesAll ==
    [][(sweep.pc \in {"stat", "unlink"} /\ sweep'.pc = "idle")
       => sweep.k >= Len(sweep.files)]_vars

\* the age that the pass computes for the file it is looking at
FileAge == sweep.now - chunkFiles[sweep.files[sweep.k]].mtime

\* the pass is looking at a file that is there
Examining ==
    /\ sweep.pc \in {"stat", "unlink"} /\ sweep.k <= Len(sweep.files)
    /\ sweep.files[sweep.k] \in DOMAIN chunkFiles

NoDuplicates(s) == Cardinality(Members(s)) = Len(s)

\* what getUploadStatus returns as receivedChunks for fileId
ReadBack(fileId) == getUploadStatus(fileId).receivedChunks

\* the members that a save for fileId is to leave on record, given the
\* receivedChunks that it passes, if it passes any
SavedChunks(fileId, data) ==
    IF Has(data, "receivedChunks") THEN Members(data.receivedChunks)
    ELSE Recorded(fileId)

\* the data that the handler in slot t passes to saveUploadStatus when the
\* in-memory table is in use: init and receiveChunk pass receivedChunks, the
\* others do not
MemoryData(t) ==
    CASE tasks'[t].op = "init" -> [receivedChunks |-> <<>>]
      [] tasks[t].op = "chunk" ->
           [receivedChunks |-> SetAdd(tasks[t].status.receivedChunks, tasks[t].chunkIndex)]
      [] OTHER -> <<>>

\* what the handlers answer once saveUploadStatus has returned
SavedMessages ==
    {"Upload initialized successfully.", "Chunk recibido",
     "Upload paused successfully.", "Upload resumed successfully.",
     "File uploaded and assembled successfully."}

====
